---- MODULE Spec2Model ----
(***************************************************************************)
(* Verification model of the experiment/job-configuration core of          *)
(* surface-morphometrics-gui: the config merge and save of                 *)
(* ConfigYAMLPreserver, the stage config updates, the archive prompt, the  *)
(* experiment manager's create action and the multi-file job workers of    *)
(* the curvature and the distance tab.                                     *)
(***************************************************************************)
EXTENDS Integers, Sequences, FiniteSets, TLC

VARIABLES
    \* ConfigYAMLPreserver.update
    mBase,      \* current_data parsed from self.content
    mUpdates,   \* the updates argument
    mOut,       \* self.yaml_data afterwards
    mDone,      \* update() has run
    \* ConfigYAMLPreserver.save
    fileC,      \* what the file at yaml_path holds
    bakC,       \* what yaml_path.with_suffix('.bak') holds
    content,    \* self.content, the text save() writes
    saveRes,    \* outcome of the last save(): "none", "ok", "raised"
    saveFail,   \* the failure injected into the last save()
    prevFile,   \* what the file held when the last save() was called
    \* the work directory on disk
    exps,           \* per experiment name: its directory, config files and results dir
    \* ExperimentManager
    current_config, \* self.current_config ({} and None are both the empty mapping)
    work_dir_w,     \* work_dir.value is set
    exp_items,      \* the names listed in the experiment_name combo box
    exp_index,      \* experiment_name.currentIndex() >= 0
    exp_text,       \* experiment_name.currentText()
    button_text,    \* submit_button.text()
    data_dir_w,     \* data_dir.value ("" when not selected)
    template_w,     \* config_template.value is set
    cores_w,        \* cores_input.value()
    seg_w,          \* segmentation_container.get_values()
    last_msg,       \* the last message box shown by the manager
    mgr_log,        \* the loads of the experiment in hand: config_loaded emissions since
                    \* it was selected, and what the last successful resume gave
    \* the stage tabs' settings widgets: key -> value (0 is the widget's default)
    mesh_w,
    curv_w,
    dist_w,
    \* the environment
    now,            \* the clock, in seconds
    links,          \* per input file of the data directory: what is at its alias path
    n_inputs,       \* per multi-file stage: the number of input files (*.mrc in the data
                    \* directory, checked .vtp files)
    \* jobs
    job,            \* per multi-file stage: the widget's job state and its worker's locals
    mesh,           \* the mesh stage: button, status and worker position
    arch_log        \* the last call of check_and_archive_outputs: arguments and result

mergeVars == <<mBase, mUpdates, mOut, mDone>>

saveVars == <<fileC, bakC, content, saveRes, saveFail, prevFile>>

fsVars == <<exps>>

mgrVars == <<current_config, work_dir_w, exp_items, exp_index, exp_text, button_text, data_dir_w, template_w,
             cores_w, seg_w, last_msg, mgr_log>>

tabVars == <<mesh_w, curv_w, dist_w>>

envVars == <<now, links, n_inputs>>

jobVars == <<job, mesh, arch_log>>

vars == <<mergeVars, saveVars, fsVars, mgrVars, tabVars, envVars, jobVars>>

(***************************************************************************)
(* Nested mappings (parsed YAML documents).  A value is a scalar/list leaf *)
(* or a mapping from keys to values; both are one record shape so that any *)
(* two values can be compared.  Lists are leaves: deep_merge treats every   *)
(* non-dict alike.                                                         *)
(***************************************************************************)
NoKids == [k \in {} |-> 0]

Leaf(n) == [isMap |-> FALSE, leaf |-> n, kids |-> NoKids]

MapOf(f) == [isMap |-> TRUE, leaf |-> 0, kids |-> f]

\* Largest leaf value drawn for the merge inputs.
MaxLeaf == 2

MergeKeys == {"A", "B"}

Leaves == {Leaf(n) : n \in 1..MaxLeaf}

\* All mappings with keys among MergeKeys and values in V.
MapsOver(V) == UNION {{MapOf(f) : f \in [D -> V]} : D \in SUBSET MergeKeys}

\* Values of nesting depth <= 1, and the documents (depth <= 2) to merge.
Values1 == Leaves \cup MapsOver(Leaves)

Documents == MapsOver(Values1)

\* A fixed iteration order over keys: dict.items() of the update.
KeyOrder(S) == CHOOSE s \in [1..Cardinality(S) -> S] : \A i, j \in 1..Cardinality(S) : i # j => s[i] # s[j]

\* d1[k] = v
SetKey(d1, k, v) == MapOf([x \in DOMAIN d1.kids \cup {k} |-> IF x = k THEN v ELSE d1.kids[x]])

RECURSIVE deep_merge(_, _)

\* Mutant of deep_merge_step: never recurses, an update mapping replaces the base mapping.
deep_merge_step_replace(d1, k, v) == SetKey(d1, k, v)

\* One iteration of the loop of deep_merge:
\*   if k in d1 and isinstance(d1[k], dict) and isinstance(v, dict): deep_merge(d1[k], v)
\*   else: d1[k] = v
deep_merge_step(d1, k, v) ==
    IF k \in DOMAIN d1.kids /\ d1.kids[k].isMap /\ v.isMap
    THEN SetKey(d1, k, deep_merge(d1.kids[k], v))
    ELSE SetKey(d1, k, v)

\* for k, v in d2.items(): ... over the keys still to visit, mutating d1.
RECURSIVE deep_merge_loop(_, _, _)
deep_merge_loop(d1, d2, order) ==
    IF order = <<>> THEN d1
    ELSE deep_merge_loop(deep_merge_step(d1, Head(order), d2.kids[Head(order)]), d2, Tail(order))

deep_merge(d1, d2) == deep_merge_loop(d1, d2, KeyOrder(DOMAIN d2.kids))

MergeInit ==
    /\ mBase \in Documents
    /\ mUpdates \in Documents
    /\ mOut = MapOf(NoKids)
    /\ mDone = FALSE

MergeIdle ==
    /\ mBase = MapOf(NoKids)
    /\ mUpdates = MapOf(NoKids)
    /\ mOut = MapOf(NoKids)
    /\ mDone = FALSE

\* ConfigYAMLPreserver.update: merge the updates into the parsed document.
update ==
    /\ ~mDone
    /\ mOut' = deep_merge(mBase, mUpdates)
    /\ mDone' = TRUE
    /\ UNCHANGED <<mBase, mUpdates>>
    /\ UNCHANGED <<saveVars, fsVars, mgrVars, tabVars, envVars, jobVars>>

(***************************************************************************)
(* ConfigYAMLPreserver.save.  The file at yaml_path and its .bak sibling   *)
(* hold a content ("c1".."c4"), nothing ("absent") or a truncated write    *)
(* ("partial").  Path.rename follows POSIX: it replaces an existing target.*)
(***************************************************************************)
Contents == {"c1", "c2", "c3", "c4"}

\* Where a save can fail: renaming to the backup, opening the file for
\* writing, or writing after the file was created/truncated.
SaveFailures == {"none", "rename", "open", "write"}

SaveInit ==
    /\ fileC \in Contents          \* __init__ has read the file: it exists
    /\ bakC \in Contents \cup {"absent"}
    /\ content \in Contents
    /\ saveRes = "none"
    /\ saveFail = "none"
    /\ prevFile = fileC

SaveIdle ==
    /\ fileC = "c1"
    /\ bakC = "absent"
    /\ content = "c1"
    /\ saveRes = "none"
    /\ saveFail = "none"
    /\ prevFile = "c1"

\* Mutant of save_except: the except branch re-raises without restoring the backup.
save_except_no_restore(file, bak, hasBackup) == [file |-> file, bak |-> bak]

\* except Exception as e: if 'backup_path' in locals(): backup_path.rename(self.yaml_path); raise e
save_except(file, bak, hasBackup) ==
    IF hasBackup THEN [file |-> bak, bak |-> "absent"] ELSE [file |-> file, bak |-> bak]

\* ConfigYAMLPreserver.save with the failure f injected.
save_outcome(file, bak, text, f) ==
    LET hasBackup == file # "absent"
        bak1 == IF hasBackup THEN file ELSE bak
        file1 == "absent"
    IN  IF hasBackup /\ f = "rename"
        THEN [file |-> file, bak |-> bak, res |-> "raised"]
        ELSE IF f = "none" \/ f = "rename"
        THEN [file |-> text, bak |-> bak1, res |-> "ok"]
        ELSE LET file2 == IF f = "open" THEN file1 ELSE "partial"
                 r == save_except(file2, bak1, hasBackup)
             IN [file |-> r.file, bak |-> r.bak, res |-> "raised"]

save ==
    \E f \in SaveFailures :
        LET o == save_outcome(fileC, bakC, content, f)
        IN  /\ fileC' = o.file
            /\ bakC' = o.bak
            /\ saveRes' = o.res
            /\ saveFail' = f
            /\ prevFile' = fileC
            /\ UNCHANGED content
            /\ UNCHANGED <<mergeVars, fsVars, mgrVars, tabVars, envVars, jobVars>>

\* ConfigYAMLPreserver.update as far as save() is concerned: a new text to write.
update_content ==
    /\ \E c \in Contents : content' = c
    /\ saveRes' = "none"
    /\ UNCHANGED <<fileC, bakC, saveFail, prevFile>>
    /\ UNCHANGED <<mergeVars, fsVars, mgrVars, tabVars, envVars, jobVars>>

(***************************************************************************)
(* Experiment configs.  A config document is a mapping (as above) whose    *)
(* leaves are numbers: small ones are settings, the ones from 100 on stand *)
(* for path and name strings.                                              *)
(***************************************************************************)
ExpNames == {"e1", "e2"}

EmptyDoc == MapOf(NoKids)

Has(d, k) == k \in DOMAIN d.kids

Get(d, k, default) == IF Has(d, k) THEN d.kids[k] ELSE default

ExpId(n) == IF n = "e1" THEN 1 ELSE 2

\* '' (an unset path widget)
NoPath == Leaf(0)

\* str(self.data_dir.value)
DataDirLeaf == Leaf(100)

\* str(self.work_dir.value)
WorkDirLeaf == Leaf(101)

\* script_location, data_dir and work_dir as the template file has them
ScriptLeaf == Leaf(110)

TemplateDirLeaf == Leaf(111)

\* str(experiment_dir)
ExpDirLeaf(n) == Leaf(120 + ExpId(n))

\* str(exp_dir) + os.sep
ExpDirSepLeaf(n) == Leaf(130 + ExpId(n))

\* str(results_dir) + os.sep
ResultsSepLeaf(n) == Leaf(140 + ExpId(n))

\* str(meshes_dir)
ResultsLeaf(n) == Leaf(150 + ExpId(n))

\* experiment_name
NameLeaf(n) == Leaf(160 + ExpId(n))

MeshSection == "surface_generation"

CurvSection == "curvature_measurements"

DistSection == "distance_and_orientation_measurements"

MeshKeys == {"angstroms", "ultrafine", "mesh_sampling", "simplify", "max_triangles",
             "extrapolation_distance", "octree_depth", "point_weight", "neighbor_count",
             "smoothing_iterations"}

CurvKeys == {"radius_hit", "min_component", "exclude_borders"}

DistScalarKeys == {"mindist", "maxdist", "tolerance", "verticality", "relative_orientation"}

DistKeys == DistScalarKeys \cup {"intra", "inter"}

\* The values a settings widget takes besides its default 0.
SettingValues == {1, 2}

\* A section as a template or an earlier version of the tool wrote it: the
\* stage's keys plus one key ("extra") that the stage's widgets do not know.
SectionWithExtra(keys, v) == MapOf([k \in keys \cup {"extra"} |-> Leaf(IF k = "extra" THEN 9 ELSE v)])

\* The template config file the user picks.
TemplateDoc ==
    MapOf([k \in {"data_dir", "work_dir", "cores", "script_location",
                  MeshSection, CurvSection, DistSection} |->
        CASE k = "data_dir" -> TemplateDirLeaf
          [] k = "work_dir" -> TemplateDirLeaf
          [] k = "cores" -> Leaf(1)
          [] k = "script_location" -> ScriptLeaf
          [] k = MeshSection -> SectionWithExtra(MeshKeys, 0)
          [] k = CurvSection -> SectionWithExtra(CurvKeys, 0)
          [] OTHER -> SectionWithExtra(DistKeys, 0)])

\* segmentation_container.get_values(): no entry, or one label.
SegDocs == {EmptyDoc, MapOf([k \in {"OMM"} |-> Leaf(1)])}

\* A file: absent, holding a parsable document (possibly empty), or malformed.
AbsentFile == [st |-> "absent", doc |-> EmptyDoc]

MalformedFile == [st |-> "malformed", doc |-> EmptyDoc]

OkFile(d) == [st |-> "ok", doc |-> d]

Exists(f) == f.st # "absent"

(***************************************************************************)
(* The results directory of an experiment.  A file name is the sequence of *)
(* the pieces the glob patterns can tell apart ("x_AVV.csv" is             *)
(* <<"x_", "A", "VV", ".csv">>); a pattern is such a sequence with "*"     *)
(* pieces.  An archive directory archive_<timestamp> is named by its       *)
(* timestamp.                                                              *)
(***************************************************************************)
NameA == <<"a", ".csv">>

NameB == <<"b", ".svg">>

NameHidden == <<".", "h", ".csv">>

NameAVV == <<"x_", "A", "VV", ".csv">>

NameVtp == <<"m", ".vtp">>

\* a non-empty sub-directory whose name ends in .csv
NameDir == <<"d", ".csv">>

\* archive_dir / "config_snapshot.yml"
Snapshot == <<"config_snapshot", ".yml">>

ResFiles == {NameA, NameB, NameHidden, NameAVV, NameVtp}

ResDirs == {NameDir}

ResNames == ResFiles \cup ResDirs

\* The latest clock reading (time.strftime, one-second resolution).
MaxTime == 1

Times == 0..MaxTime

NoArchive == [made |-> FALSE, items |-> {}]

\* results_dir does not exist.
NoResults == [exists |-> FALSE, top |-> {}, arch |-> [t \in Times |-> NoArchive]]

EmptyResults == [NoResults EXCEPT !.exists = TRUE]

\* fnmatch of a name against a pattern, as Path.glob and Path.match apply it
\* to the entries of one directory (neither skips names with a leading dot).
RECURSIVE fnmatch(_, _)
fnmatch(name, pat) ==
    IF pat = <<>> THEN name = <<>>
    ELSE IF Head(pat) = "*"
    THEN fnmatch(name, Tail(pat)) \/ (name # <<>> /\ fnmatch(Tail(name), pat))
    ELSE name # <<>> /\ Head(name) = Head(pat) /\ fnmatch(Tail(name), Tail(pat))

\* file_patterns=['*.csv', '*.svg', '*.png'] of the distance stage
DistPatterns == {<<"*", ".csv">>, <<"*", ".svg">>, <<"*", ".png">>}

\* exclude_patterns=['*AVV*', '*VV*', '*.gt', '*_runtimes.csv']
DistExcludes == {<<"*", "A", "VV", "*">>, <<"*", "VV", "*">>, <<"*", ".gt">>,
                 <<"*", "_runtimes", ".csv">>}

\* targets='all': file_patterns = ['*']
AllPatterns == {<<"*">>}

\* targets='measurements': file_patterns = ['*.csv', '*.curv']
MeasurementPatterns == {<<"*", ".csv">>, <<"*", ".curv">>}

\* for exc in exclude_patterns: if p.match(exc)
is_excluded(name, excl) == \E e \in excl : fnmatch(name, e)

\* The name of results_dir / f"archive_{timestamp}" (the timestamp in unary).
ArchName(t) == <<"archive_">> \o [i \in 1..t |-> "s"]

ArchNames == {ArchName(t) : t \in Times}

\* The timestamp in an archive directory's name.
ArchTime(name) == Len(name) - 1

\* The entries Path.glob visits in results_dir.
Entries(res) == res.top \cup {ArchName(t) : t \in {u \in Times : res.arch[u].made}}

\* p.is_dir()
is_dir(name) == name \in ResDirs \cup ArchNames

\* "archive_" in p.name, for the names of the model
HasArchiveInName(name) == \E i \in 1..Len(name) : name[i] = "archive_"

\* any(p.iterdir()): the sub-directories of the model hold files, an
\* archive directory holds what was moved into it.
non_empty(res, name) ==
    IF name \in ArchNames THEN res.arch[ArchTime(name)].items # {} ELSE TRUE

\* Step 1 of check_and_archive_outputs: files_found.
files_found(res, pats, excl) ==
    {p \in Entries(res) :
        \E pat \in pats :
            /\ fnmatch(p, pat)
            /\ ~is_excluded(p, excl)
            /\ IF is_dir(p)
               THEN ~HasArchiveInName(p) /\ pat = <<"*">> /\ non_empty(res, p)
               ELSE Head(p) # "."}

\* if p == archive_dir: continue; if p.is_dir() and "archive_" in p.name: continue
skip_archives(name, ts) == name = ArchName(ts) \/ (is_dir(name) /\ HasArchiveInName(name))

\* The re-scan before the move: items_to_move, with archive_dir = archive_<ts>.
items_to_move(res, pats, excl, ts) ==
    {p \in Entries(res) :
        \E pat \in pats :
            /\ fnmatch(p, pat)
            /\ ~skip_archives(p, ts)
            /\ ~is_excluded(p, excl)}

\* for p in items_to_move: shutil.move(str(p), str(archive_dir / p.name)),
\* each in its own try/except; failed holds the items whose move raised.
\* A moved directory leaves results_dir with all it holds.
move_items(res, ts, items, failed) ==
    LET moved == items \ failed
    IN [res EXCEPT !.top = @ \ moved,
                   !.arch = [t \in Times |->
                        IF t = ts THEN [made |-> TRUE, items |-> res.arch[ts].items \cup moved]
                        ELSE IF ArchName(t) \in moved THEN NoArchive
                        ELSE res.arch[t]]]

\* if config_path and Path(config_path).exists(): shutil.copy2(...) in try/except
copy_snapshot(res, ts, cfg, copyOk) ==
    IF Exists(cfg) /\ copyOk
    THEN [res EXCEPT !.arch[ts].items = @ \cup {Snapshot}]
    ELSE res

\* check_and_archive_outputs(results_dir, config_path, file_patterns,
\* exclude_patterns) with the user's answer (decision), the clock (ts) and
\* the failures of the file system drawn by the caller.  ret is "true",
\* "false" or "raised" (archive_dir.mkdir raised).
check_and_archive_outputs(res, cfg, pats, excl, decision, ts, mkdirOk, failed, copyOk) ==
    LET found == files_found(res, pats, excl)
        out(r, d, ret) == [res |-> r, found |-> found, decision |-> d, ret |-> ret]
    IN  IF ~res.exists \/ found = {} THEN out(res, "noprompt", "true")
        ELSE IF decision = "cancel" THEN out(res, "cancel", "false")
        ELSE IF decision = "overwrite" THEN out(res, "overwrite", "true")
        ELSE IF ~mkdirOk THEN out(res, "archive", "raised")
        ELSE LET made == [res EXCEPT !.arch[ts].made = TRUE]
                 items == items_to_move(made, pats, excl, ts)
                 moved == move_items(made, ts, items, failed \cap items)
             IN out(copy_snapshot(moved, ts, cfg, copyOk), "archive", "true")

\* No directory for the experiment.
NoExp == [dir |-> FALSE, pref |-> AbsentFile, fb |-> AbsentFile, results |-> NoResults]

\* The largest cores value the model draws besides the default
\* (cores_input allows 1..64).
MaxCores == 1

\* cores_input.setValue(14)
DefaultCores == 14

CoreValues == 1..MaxCores \cup {DefaultCores}

\* A config as an earlier session left it: created from the template for
\* experiment n, settings v written by the stages.
PopulatedDoc(n, v) ==
    LET d == [k \in {"data_dir", "work_dir", "exp_name", "cores", "script_location",
                     "segmentation_values", MeshSection, CurvSection, DistSection} |->
                CASE k = "data_dir" -> DataDirLeaf
                  [] k = "work_dir" -> ExpDirLeaf(n)
                  [] k = "exp_name" -> NameLeaf(n)
                  [] k = "cores" -> Leaf(2)
                  [] k = "script_location" -> ScriptLeaf
                  [] k = "segmentation_values" -> EmptyDoc
                  [] k = MeshSection -> SectionWithExtra(MeshKeys, v)
                  [] k = CurvSection -> SectionWithExtra(CurvKeys, v)
                  [] OTHER -> SectionWithExtra(DistKeys, v)]
    IN MapOf(d)

\* A config without any stage section (a hand-written or trimmed file).
BareDoc(n) ==
    MapOf([k \in {"data_dir", "work_dir", "cores", "script_location"} |->
        CASE k = "data_dir" -> DataDirLeaf
          [] k = "work_dir" -> ExpDirLeaf(n)
          [] k = "cores" -> Leaf(1)
          [] OTHER -> ScriptLeaf])

\* A hand-written config without the cores key.
NoCoresDoc(n) ==
    MapOf([k \in {"data_dir", "work_dir", "script_location"} |->
        CASE k = "data_dir" -> DataDirLeaf
          [] k = "work_dir" -> ExpDirLeaf(n)
          [] OTHER -> ScriptLeaf])

\* A hand-written config: no data_dir and no work_dir, and of each stage's
\* section one key only (the distance section without intra and inter).
PartialDoc ==
    MapOf([k \in {"cores", "script_location", MeshSection, CurvSection, DistSection} |->
        CASE k = "cores" -> Leaf(1)
          [] k = "script_location" -> ScriptLeaf
          [] k = MeshSection -> MapOf([j \in {"angstroms"} |-> Leaf(2)])
          [] k = CurvSection -> MapOf([j \in {"radius_hit"} |-> Leaf(2)])
          [] OTHER -> MapOf([j \in {"mindist"} |-> Leaf(2)])])

(***************************************************************************)
(* ExperimentManager                                                       *)
(***************************************************************************)

\* Stage tabs' _on_config_loaded: rehydrate the widgets from current_config.
mesh_on_config_loaded(cfg, w) ==
    IF cfg = EmptyDoc THEN w
    ELSE LET sec == Get(cfg, MeshSection, EmptyDoc)
         IN IF sec.kids = NoKids THEN w
            ELSE [k \in MeshKeys |-> Get(sec, k, Leaf(0)).leaf]

curv_on_config_loaded(cfg, w) ==
    IF cfg = EmptyDoc THEN w
    ELSE LET sec == Get(cfg, CurvSection, EmptyDoc)
         IN [k \in CurvKeys |-> Get(sec, k, Leaf(0)).leaf]

dist_on_config_loaded(cfg, w) ==
    IF cfg = EmptyDoc THEN w
    ELSE LET sec == Get(cfg, DistSection, EmptyDoc)
         IN [k \in DistKeys |->
                IF k \in DistScalarKeys THEN Get(sec, k, Leaf(0)).leaf
                ELSE IF Has(sec, k) THEN sec.kids[k].leaf ELSE w[k]]

\* self.config_loaded.emit(): every connected tab handles the signal.
EmitConfigLoaded(cfg) ==
    /\ mesh_w' = mesh_on_config_loaded(cfg, mesh_w)
    /\ curv_w' = curv_on_config_loaded(cfg, curv_w)
    /\ dist_w' = dist_on_config_loaded(cfg, dist_w)

\* The config file a glob of *_config.yml, then config.yml, finds in an
\* experiment directory.
FoundConfig(e) == IF Exists(e.pref) THEN e.pref ELSE e.fb

\* _update_experiment_names: the sub-directories holding a *_config.yml.
ListedExperiments(ex) == {n \in ExpNames : ex[n].dir /\ Exists(ex[n].pref)}

\* The manager's fields as a record, to thread them through a handler.
Fields == [cfg |-> current_config, data |-> data_dir_w, tmpl |-> template_w,
           cores |-> cores_w, seg |-> seg_w, button |-> button_text, emit |-> FALSE]

\* _clear_experiment_fields
clear_experiment_fields(fl) ==
    [fl EXCEPT !.data = NoPath, !.tmpl = FALSE, !.cores = 1, !.seg = EmptyDoc,
               !.button = "Start New Experiment"]

\* _load_existing_experiment_config for the experiment named n, wd telling
\* whether work_dir.value is set when the handler runs.  A file that
\* does not parse raises inside the try and is passed over; an empty file
\* loads as None, which raises at the first "in" after current_config is set.
load_existing_experiment_config(fl, n, wd) ==
    LET f == FoundConfig(exps[n])
    IN  IF ~wd \/ ~exps[n].dir \/ f.st # "ok" THEN fl
        ELSE IF f.doc = EmptyDoc THEN [fl EXCEPT !.cfg = EmptyDoc]
        ELSE [fl EXCEPT !.cfg = f.doc,
                        !.data = Get(f.doc, "data_dir", @),
                        !.tmpl = TRUE,
                        !.cores = Get(f.doc, "cores", Leaf(@)).leaf,
                        !.seg = Get(f.doc, "segmentation_values", @),
                        !.emit = TRUE]

\* _on_experiment_selected, reached with currentIndex() >= 0 (item n).
on_experiment_selected(fl, n, wd) ==
    load_existing_experiment_config([fl EXCEPT !.button = "Resume Experiment"], n, wd)

\* Write a threaded field record back to the manager and notify the tabs.
SetFields(fl) ==
    /\ current_config' = fl.cfg
    /\ data_dir_w' = fl.data
    /\ template_w' = fl.tmpl
    /\ cores_w' = fl.cores
    /\ seg_w' = fl.seg
    /\ button_text' = fl.button
    /\ IF fl.emit THEN EmitConfigLoaded(fl.cfg) ELSE UNCHANGED tabVars

\* The most config_loaded emissions counted for one experiment in hand.
MaxEmits == 3

\* No experiment in hand, nothing resumed.
NoResume == [name |-> "", file |-> AbsentFile, cfg |-> EmptyDoc]

NoLoad == [exp |-> "", emits |-> 0, resumed |-> NoResume]

\* currentIndexChanged made n the experiment in hand: fl.emit tells whether
\* _load_existing_experiment_config reached self.config_loaded.emit().
LogSelect(n, fl) ==
    mgr_log' = [mgr_log EXCEPT !.exp = n, !.emits = IF fl.emit THEN 1 ELSE 0]

\* _resume_experiment reached self.config_loaded.emit() for n, with cfg in
\* current_config.
LogResume(n, cfg) ==
    mgr_log' = [exp |-> n,
                emits |-> IF mgr_log.exp = n THEN mgr_log.emits + 1 ELSE 1,
                resumed |-> [name |-> n, file |-> FoundConfig(exps[n]), cfg |-> cfg]]

\* The user selects the listed experiment n (currentIndexChanged).
select_experiment ==
    \E n \in exp_items :
        /\ exp_text' = n
        /\ exp_index' = TRUE
        /\ SetFields(on_experiment_selected(Fields, n, work_dir_w))
        /\ LogSelect(n, on_experiment_selected(Fields, n, work_dir_w))
        /\ UNCHANGED <<work_dir_w, exp_items, last_msg, exps>>
        /\ UNCHANGED <<mergeVars, saveVars, envVars, jobVars>>

\* The user edits the name text (editTextChanged -> _check_start_button_state).
\* Whether the toolkit also reports currentIndexChanged(-1) for a text that
\* is no list item is the toolkit's choice: both outcomes are drawn.
type_name ==
    \E t \in ExpNames, cleared \in BOOLEAN :
        /\ exp_text' = t
        /\ IF cleared /\ exp_index /\ t \notin exp_items
           THEN /\ exp_index' = FALSE
                /\ SetFields(clear_experiment_fields(Fields))
                /\ mgr_log' = [mgr_log EXCEPT !.exp = "", !.emits = 0]
           ELSE /\ UNCHANGED <<exp_index, mgr_log>>
                /\ SetFields(Fields)
        /\ UNCHANGED <<work_dir_w, exp_items, last_msg, exps>>
        /\ UNCHANGED <<mergeVars, saveVars, envVars, jobVars>>

\* _update_config_paths: called when data_dir changes.
update_config_paths(cfg, picked) ==
    IF cfg = EmptyDoc THEN [cfg |-> cfg, data |-> picked]
    ELSE LET c1 == IF ~Has(cfg, "data_dir") /\ picked # NoPath
                   THEN SetKey(cfg, "data_dir", picked) ELSE cfg
             d1 == IF Has(cfg, "data_dir") THEN cfg.kids["data_dir"] ELSE picked
             c2 == IF ~Has(c1, "work_dir") /\ work_dir_w
                   THEN SetKey(c1, "work_dir", WorkDirLeaf) ELSE c1
         IN [cfg |-> c2, data |-> d1]

\* The user picks the data directory (data_dir.changed -> _update_config_paths).
pick_data_dir ==
    LET r == update_config_paths(current_config, DataDirLeaf)
    IN  /\ current_config' = r.cfg
        /\ data_dir_w' = r.data
        /\ UNCHANGED <<work_dir_w, exp_items, exp_text, exp_index, button_text, template_w,
                       cores_w, seg_w, last_msg, mgr_log, exps, tabVars>>
        /\ UNCHANGED <<mergeVars, saveVars, envVars, jobVars>>

\* The user picks the template file (_handle_config_template_selection, _load_config).
pick_template ==
    /\ template_w' = TRUE
    /\ current_config' = TemplateDoc
    /\ seg_w' = Get(TemplateDoc, "segmentation_values", seg_w)
    /\ UNCHANGED <<work_dir_w, exp_items, exp_text, exp_index, button_text, data_dir_w,
                   cores_w, last_msg, mgr_log, exps, tabVars>>
    /\ UNCHANGED <<mergeVars, saveVars, envVars, jobVars>>

\* The user sets the cores spin box and the segmentation entries
\* (_update_config_from_segmentation).
edit_cores_segmentation ==
    \E c \in CoreValues, sg \in SegDocs :
        /\ cores_w' = c
        /\ seg_w' = sg
        /\ current_config' = IF current_config # EmptyDoc /\ sg # seg_w
                             THEN SetKey(current_config, "segmentation_values", sg)
                             ELSE current_config
        /\ UNCHANGED <<work_dir_w, exp_items, exp_text, exp_index, button_text, data_dir_w,
                       template_w, last_msg, mgr_log, exps, tabVars>>
        /\ UNCHANGED <<mergeVars, saveVars, envVars, jobVars>>

\* _update_experiment_names: the work directory is (re)picked, its value is
\* set when the handler runs.  clear()
\* drops the current item, addItems() makes the first listed item current
\* (iterdir fixes no order: any listed item can be first).
update_experiment_names ==
    LET items == ListedExperiments(exps)
        fl0 == IF exp_index THEN clear_experiment_fields(Fields) ELSE Fields
    IN  /\ work_dir_w' = TRUE
        /\ exp_items' = items
        /\ IF items = {}
           THEN /\ exp_text' = ""
                /\ exp_index' = FALSE
                /\ SetFields(fl0)
                /\ mgr_log' = [mgr_log EXCEPT !.exp = "", !.emits = 0]
           ELSE \E n \in items :
                /\ exp_text' = n
                /\ exp_index' = TRUE
                /\ SetFields(on_experiment_selected(fl0, n, TRUE))
                /\ LogSelect(n, on_experiment_selected(fl0, n, TRUE))
        /\ UNCHANGED <<last_msg, exps>>
        /\ UNCHANGED <<mergeVars, saveVars, envVars, jobVars>>

\* The config _create_new_experiment derives from the template.
NewConfig(n, c, sg) ==
    LET d1 == SetKey(TemplateDoc, "data_dir", data_dir_w)
        d2 == SetKey(d1, "work_dir", ExpDirLeaf(n))
        d3 == SetKey(d2, "exp_name", NameLeaf(n))
        d4 == SetKey(d3, "cores", Leaf(c))
    IN SetKey(d4, "segmentation_values", sg)

\* _create_new_experiment, the file system part: mkdir(parents=True,
\* exist_ok=True), then open(new_config_path, 'w') and dump.
create_new_config_file(e, doc) == [e EXCEPT !.dir = TRUE, !.pref = OkFile(doc)]

\* Mutant of resume_raises: no check of the directory and the file.
resume_raises_never(e) == FALSE

\* _resume_experiment raises before current_config is assigned: the
\* directory or the config file is missing (FileNotFoundError), or
\* yaml.load fails.
resume_raises(e) == ~e.dir \/ FoundConfig(e).st # "ok"

\* _resume_experiment
resume_experiment ==
    LET n == exp_text
        f == FoundConfig(exps[n])
    IN  IF resume_raises(exps[n])
        THEN /\ last_msg' = "Resume Error"
             /\ UNCHANGED <<current_config, data_dir_w, tabVars, mgr_log>>
        ELSE IF f.doc = EmptyDoc
        THEN \* current_config is None: _update_config_paths does nothing
             /\ current_config' = EmptyDoc
             /\ EmitConfigLoaded(EmptyDoc)
             /\ LogResume(n, EmptyDoc)
             /\ last_msg' = "Experiment Resumed"
             /\ UNCHANGED data_dir_w
        ELSE LET r == update_config_paths(f.doc, data_dir_w)
             IN  /\ current_config' = r.cfg
                 /\ data_dir_w' = r.data
                 /\ EmitConfigLoaded(r.cfg)
                 /\ LogResume(n, r.cfg)
                 /\ last_msg' = "Experiment Resumed"

\* _create_new_experiment
create_new_experiment ==
    IF ~work_dir_w \/ exp_text = "" \/ ~template_w \/ data_dir_w = NoPath
    THEN UNCHANGED <<exps, last_msg, mgr_log>>
    ELSE /\ exps' = [exps EXCEPT ![exp_text] =
                        create_new_config_file(@, NewConfig(exp_text, cores_w, seg_w))]
         /\ last_msg' = "Success"
         /\ mgr_log' = IF mgr_log.resumed.name = exp_text
                        THEN [mgr_log EXCEPT !.resumed = NoResume] ELSE mgr_log

\* _create_experiment: the submit button is clicked (it is enabled only with
\* all fields filled, _check_start_button_state).  A resume is confirmed or
\* cancelled in the dialog.
create_experiment ==
    /\ work_dir_w /\ exp_text # "" /\ template_w /\ data_dir_w # NoPath
    /\ IF button_text = "Resume Experiment"
       THEN \E confirmed \in BOOLEAN :
                /\ IF confirmed THEN mgr_log.emits < MaxEmits /\ resume_experiment
                   ELSE UNCHANGED <<current_config, data_dir_w, tabVars, last_msg, mgr_log>>
                /\ UNCHANGED exps
       ELSE /\ create_new_experiment
            /\ UNCHANGED <<current_config, data_dir_w, tabVars>>
    /\ UNCHANGED <<work_dir_w, exp_items, exp_text, exp_index, button_text, template_w,
                   cores_w, seg_w>>
    /\ UNCHANGED <<mergeVars, saveVars, envVars, jobVars>>

(***************************************************************************)
(* The stages' _update_config                                              *)
(***************************************************************************)

\* existing.setdefault(sec, {}); existing[sec].update({k: widget value, ...})
section_update(doc, sec, w) ==
    LET old == Get(doc, sec, EmptyDoc)
    IN SetKey(doc, sec, MapOf([k \in DOMAIN old.kids \cup DOMAIN w |->
                                  IF k \in DOMAIN w THEN Leaf(w[k]) ELSE old.kids[k]]))

\* pycurv and distance: the path to write and the mapping to start from.
\* A file that does not parse, or an empty one, gives {}; with no file the
\* mapping is a copy of current_config (snapshot).
load_existing(e, cur) ==
    LET path == IF Exists(e.pref) THEN "pref" ELSE IF Exists(e.fb) THEN "fb" ELSE "pref"
        f == IF path = "pref" THEN e.pref ELSE e.fb
    IN [path |-> path,
        snapshot |-> ~Exists(f),
        existing |-> IF ~Exists(f) THEN cur ELSE IF f.st = "ok" THEN f.doc ELSE EmptyDoc]

\* with open(config_path, 'w') as f: yaml.dump(existing, f)
write_config(e, path, doc) ==
    IF path = "pref" THEN [e EXCEPT !.pref = OkFile(doc)] ELSE [e EXCEPT !.fb = OkFile(doc)]

\* DistanceOrientationWidget._update_config for experiment n with directory
\* state e, current_config cur and widget values w.
dist_update_config(e, n, cur, w) ==
    IF cur = EmptyDoc THEN [raised |-> "ValueError", e |-> e, path |-> "none"]
    ELSE IF ~e.dir THEN [raised |-> "FileNotFoundError", e |-> e, path |-> "none"]
    ELSE LET l == load_existing(e, cur)
             e1 == [e EXCEPT !.results.exists = TRUE]
             d1 == SetKey(l.existing, "work_dir", ResultsSepLeaf(n))
             d2 == section_update(d1, DistSection, w)
         IN [raised |-> "none", e |-> write_config(e1, l.path, d2), path |-> l.path]

\* PyCurvWidget._update_config from the mapping it loaded to the one it
\* writes: work_dir, cores, and the section's keys.
curv_merged(existing, n, cur, w) ==
    LET d1 == SetKey(existing, "work_dir", ExpDirSepLeaf(n))
        d2 == SetKey(d1, "cores", Get(cur, "cores", Leaf(1)))
    IN section_update(d2, CurvSection, w)

\* PyCurvWidget._update_config.  dict(current_config) copies the top level
\* only: with no file on disk the section updated in place is the one
\* current_config holds (cur in the result is current_config afterwards).
curv_update_config(e, n, cur, w) ==
    IF cur = EmptyDoc THEN [raised |-> "ValueError", e |-> e, path |-> "none", cur |-> cur]
    ELSE LET l == load_existing(e, cur)
             d3 == curv_merged(l.existing, n, cur, w)
             cur1 == IF l.snapshot /\ Has(cur, CurvSection)
                     THEN section_update(cur, CurvSection, w) ELSE cur
         IN IF ~e.dir
            THEN [raised |-> "FileNotFoundError", e |-> e, path |-> "none", cur |-> cur1]
            ELSE [raised |-> "none", e |-> write_config(e, l.path, d3), path |-> l.path,
                  cur |-> cur1]

\* The mapping MeshGenerationWidget._update_config assigns to
\* config['surface_generation'].
mesh_section(n, w) ==
    MapOf([k \in MeshKeys \cup {"output_dir"} |->
              IF k = "output_dir" THEN ResultsLeaf(n) ELSE Leaf(w[k])])

\* MeshGenerationWidget._update_config: every failure is re-raised as Exception.
mesh_update_config(e, n, w) ==
    IF ~e.dir THEN [raised |-> "Exception", e |-> e, path |-> "none"]
    ELSE LET e1 == [e EXCEPT !.results.exists = TRUE]
         IN IF e.pref.st # "ok" \/ e.pref.doc = EmptyDoc
            THEN [raised |-> "Exception", e |-> e1, path |-> "none"]
            ELSE [raised |-> "none", path |-> "pref",
                  e |-> write_config(e1, "pref", SetKey(e.pref.doc, MeshSection, mesh_section(n, w)))]

(***************************************************************************)
(* Jobs.  A multi-file stage (curvature, distance) runs _run_job on the    *)
(* GUI thread, _run_job_worker on a thread of its own and the per-file     *)
(* function on the threads of a ThreadPoolExecutor; _job_cleanup runs on   *)
(* the GUI thread again.                                                   *)
(***************************************************************************)
Stages == {"curv", "dist"}

\* The largest number of input files of a job.
MaxItems == 3

Items == 1..MaxItems

Decisions == {"cancel", "overwrite", "archive"}

\* _update_config's locals config_path and existing before the file is read.
NotLoaded == [path |-> "none", snapshot |-> FALSE, existing |-> EmptyDoc]

\* A stage widget after construction, and the locals of its worker.
IdleJob ==
    [is_running |-> FALSE, submit_enabled |-> TRUE, status |-> "", msg |-> "none",
     progress |-> <<>>, pc |-> "idle", exp |-> "", total_files |-> 0, max_workers |-> 0,
     fut |-> <<>>, runs |-> <<>>, consumed |-> {}, processed_count |-> 0,
     success_count |-> 0, loaded |-> NotLoaded]

\* The widget and the worker's locals when _run_job starts the thread for
\* experiment n.
StartedJob(status, n) ==
    [IdleJob EXCEPT !.is_running = TRUE, !.submit_enabled = FALSE, !.status = status,
                    !.progress = <<0>>, !.pc = "thread", !.exp = n]

\* No call of check_and_archive_outputs yet.
NoCall ==
    [caller |-> "none", before |-> NoResults, after |-> NoResults, cfg |-> AbsentFile,
     found |-> {}, items |-> {}, decision |-> "none", ret |-> "none", ts |-> 0,
     failed |-> {}, copyOk |-> TRUE, calls |-> 0, pats |-> {}, excl |-> {}]

\* The record of one call.
CallLog(caller, res, cfg, pats, excl, r, ts, failed, copyOk) ==
    [calls |-> arch_log.calls + 1, caller |-> caller, before |-> res, after |-> r.res, cfg |-> cfg, found |-> r.found,
     items |-> items_to_move(res, pats, excl, ts), decision |-> r.decision, ret |-> r.ret,
     ts |-> ts, failed |-> failed, copyOk |-> copyOk, pats |-> pats, excl |-> excl]

\* progress = int((processed_count / total_files) * 100)
Progress(processed_count, total_files) == (100 * processed_count) \div total_files

\* min(cores, total_files)
Min(a, b) == IF a < b THEN a ELSE b

\* The values the user types into settings widgets: other than the ones a
\* created experiment's config holds.
EditValues == SettingValues \ {1}

\* The user changes the settings widgets of one stage.
edit_settings ==
    /\ \E st \in {"mesh", "curv", "dist"}, v \in EditValues :
        /\ mesh_w' = IF st = "mesh" THEN [k \in MeshKeys |-> v] ELSE mesh_w
        /\ curv_w' = IF st = "curv" THEN [k \in CurvKeys |-> v] ELSE curv_w
        /\ dist_w' = IF st = "dist" THEN [k \in DistKeys |-> v] ELSE dist_w
    /\ UNCHANGED <<mergeVars, saveVars, fsVars, mgrVars, envVars, jobVars>>

\* One second passes.
tick ==
    /\ now < MaxTime
    /\ now' = now + 1
    /\ UNCHANGED <<links, n_inputs, mergeVars, saveVars, fsVars, mgrVars, tabVars, jobVars>>

\* The most calls of check_and_archive_outputs in one behaviour.
MaxCalls == 2

\* The failures drawn for the moves of one call: none, or one item's move.
MoveFailures(items) == {{}} \cup {{p} : p \in items}

\* check_and_archive_outputs called directly for experiment n's results
\* directory with the patterns its targets argument gives (targets='all',
\* targets='measurements') and no exclusions.
archive_check ==
    /\ arch_log.calls < MaxCalls
    /\ \E n \in ExpNames, pats \in {AllPatterns, MeasurementPatterns}, decision \in Decisions :
        LET res == exps[n].results
            cfg == exps[n].pref
            excl == {}
            arch == decision = "archive" /\ files_found(res, pats, excl) # {}
        IN \E mkdirOk \in IF arch THEN BOOLEAN ELSE {TRUE} :
           \E copyOk \in IF arch /\ mkdirOk /\ Exists(cfg) THEN BOOLEAN ELSE {TRUE},
              failed \in IF arch /\ mkdirOk
                         THEN MoveFailures(items_to_move(res, pats, excl, now))
                         ELSE {{}} :
            LET r == check_and_archive_outputs(res, cfg, pats, excl, decision, now,
                                               mkdirOk, failed, copyOk)
            IN  /\ exps' = [exps EXCEPT ![n].results = r.res]
                /\ arch_log' = CallLog("direct", res, cfg, pats, excl, r, now, failed, copyOk)
    /\ UNCHANGED <<job, mesh, mergeVars, saveVars, mgrVars, tabVars, envVars>>

(***************************************************************************)
(* The distance stage                                                      *)
(***************************************************************************)

\* Mutant of run_rejected: a run request is served whatever is_running says.
run_accepted(j) == FALSE

\* if self.is_running: return   (first statement of _run_job, curvature and
\* distance)
run_rejected(j) == j.is_running

\* Mutant of after_archive_check: the job starts whatever the check returned.
after_archive_check_start(j, ret, n) == StartedJob("Starting...", n)

\* if not check_and_archive_outputs(...): return; an exception of the check
\* is printed and passed over; then the job starts.
after_archive_check(j, ret, n) == IF ret = "false" THEN j ELSE StartedJob("Starting...", n)

\* DistanceOrientationWidget._run_job: the submit button is clicked.
dist_run_job ==
    /\ ~run_rejected(job["dist"])
    /\ arch_log.calls < MaxCalls
    /\ work_dir_w /\ exp_text # ""
    /\ LET n == exp_text
           u == dist_update_config(exps[n], n, current_config, dist_w)
           written == IF u.path = "fb" THEN u.e.fb ELSE u.e.pref
           res == u.e.results
           cfg == u.e.pref
       IN  IF u.raised # "none"
           THEN /\ job' = [job EXCEPT !["dist"].msg =
                              IF u.raised = "FileNotFoundError" THEN "Config Missing"
                              ELSE "Error"]
                /\ UNCHANGED <<exps, arch_log>>
           ELSE \E scriptOk \in BOOLEAN :
                IF ~Has(written.doc, "script_location") \/ ~scriptOk
                THEN /\ job' = [job EXCEPT !["dist"].msg = "Script Not Found"]
                     /\ exps' = [exps EXCEPT ![n] = u.e]
                     /\ UNCHANGED arch_log
                ELSE \E decision \in Decisions :
                     LET arch == decision = "archive"
                                 /\ files_found(res, DistPatterns, DistExcludes) # {}
                     IN \E mkdirOk \in IF arch THEN BOOLEAN ELSE {TRUE} :
                        \E copyOk \in IF arch /\ mkdirOk /\ Exists(cfg) THEN BOOLEAN ELSE {TRUE},
                           failed \in IF arch /\ mkdirOk
                                      THEN MoveFailures(items_to_move(res, DistPatterns,
                                                                      DistExcludes, now))
                                      ELSE {{}} :
                        LET r == check_and_archive_outputs(res, cfg, DistPatterns,
                                     DistExcludes, decision, now, mkdirOk, failed, copyOk)
                        IN  /\ exps' = [exps EXCEPT ![n] = [u.e EXCEPT !.results = r.res]]
                            /\ arch_log' = CallLog("dist", res, cfg, DistPatterns,
                                                   DistExcludes, r, now, failed, copyOk)
                            /\ job' = [job EXCEPT !["dist"] = after_archive_check(@, r.ret, n)]
    /\ UNCHANGED <<mesh, mergeVars, saveVars, mgrVars, tabVars, envVars>>

\* Mutant of no_work_items: the pool is entered with no call submitted.
no_work_items_pool(j, status) == [j EXCEPT !.status = "Processing", !.pc = "pool"]

\* if not selected_vtp_files / if not mrc_files: the status is set and the
\* worker returns (its finally clause schedules _job_cleanup).
no_work_items(j, status) == [j EXCEPT !.status = status, !.pc = "cleanup"]

\* _run_job_worker up to the creation of the pool.  config_path is the
\* preferred path of the experiment _run_job was clicked for.
dist_worker_start ==
    /\ job["dist"].pc = "thread"
    /\ \E scriptOk \in BOOLEAN :
        LET f == exps[job["dist"].exp].pref
            n_files == n_inputs["dist"]
            ok == /\ f.st = "ok"
                  /\ Has(f.doc, "work_dir") /\ Has(f.doc, "data_dir")
        IN job' = [job EXCEPT !["dist"] =
              IF ~ok THEN [@ EXCEPT !.status = "Error", !.pc = "cleanup"]
              ELSE IF ~scriptOk
              THEN [@ EXCEPT !.status = "Error: script not found", !.pc = "cleanup"]
              ELSE IF n_files = 0
              THEN no_work_items(@, "Error: No MRC files found")
              ELSE [@ EXCEPT !.status = "Processing", !.pc = "pool",
                             !.total_files = n_files,
                             !.max_workers = Min(Get(f.doc, "cores", Leaf(1)).leaf, n_files),
                             !.fut = [i \in 1..n_files |-> "pending"],
                             !.runs = [i \in 1..n_files |-> 0]]]
    /\ UNCHANGED <<mesh, arch_log, mergeVars, saveVars, fsVars, mgrVars, tabVars, envVars>>

\* The pool runs the submitted calls in submission order, at most
\* max_workers at a time, also while the with block waits at its exit.
CanStart(j, i) ==
    /\ j.pc \in {"pool", "escalated"}
    /\ i \in DOMAIN j.fut
    /\ j.fut[i] = "pending"
    /\ \A k \in 1..(i - 1) : j.fut[k] # "pending"
    /\ Cardinality({k \in DOMAIN j.fut : j.fut[k] = "running"}) < j.max_workers

\* Mutant of finally_remove: the alias is left behind.
finally_keep(l) == l

\* finally: if os.path.islink(link_path): os.remove(link_path)
finally_remove(l) == IF l \in {"alias", "stale", "dangling"} THEN "absent" ELSE l

\* process_mrc_file up to the start of the subprocess: an existing file or
\* live link at the alias path is removed (os.path.exists follows links, so
\* a dangling link stays), then os.symlink creates the alias or raises.
dist_item_start ==
    /\ \E i \in Items, symlinkOk \in BOOLEAN :
        /\ CanStart(job["dist"], i)
        /\ LET l1 == IF links[i] \in {"file", "stale"} THEN "absent" ELSE links[i]
               created == l1 = "absent" /\ symlinkOk
           IN  /\ links' = [links EXCEPT ![i] = IF created THEN "alias" ELSE finally_remove(l1)]
               /\ job' = [job EXCEPT !["dist"].fut[i] = IF created THEN "running" ELSE "excL",
                                     !["dist"].runs[i] = @ + 1]
    /\ UNCHANGED <<now, n_inputs, mesh, arch_log, mergeVars, saveVars, fsVars, mgrVars, tabVars>>

\* The subprocess of item i ends: exit code 0, CalledProcessError, or
\* subprocess.run raises something else; the finally clause runs.
dist_item_finish ==
    /\ \E i \in Items, outcome \in {"exit0", "exitN", "raise"} :
        /\ i \in DOMAIN job["dist"].fut
        /\ job["dist"].fut[i] = "running"
        /\ links' = [links EXCEPT ![i] = finally_remove(@)]
        /\ job' = [job EXCEPT !["dist"].fut[i] =
                      CASE outcome = "exit0" -> "r0"
                        [] outcome = "exitN" -> "rN"
                        [] OTHER -> "excR"]
    /\ UNCHANGED <<now, n_inputs, mesh, arch_log, mergeVars, saveVars, fsVars, mgrVars, tabVars>>

\* A future that holds an exception: raised while the alias was set up
\* ("excL") or by the run of the subprocess ("excR").
Raised == {"excL", "excR"}

\* A finished future: return code 0, another return code, or an exception.
Finished == {"r0", "rN"} \cup Raised

\* for future in as_completed(...): result = future.result(); with lock: ...
\* for stage st: a finished call not yet yielded is taken.  result() re-raises
\* what the call raised, which leaves the loop and the with block.
consume_result(st) ==
    /\ job[st].pc = "pool"
    /\ \E i \in DOMAIN job[st].fut :
        /\ i \notin job[st].consumed
        /\ job[st].fut[i] \in Finished
        /\ job' = [job EXCEPT ![st] =
              IF @.fut[i] \in Raised
              THEN [@ EXCEPT !.consumed = @ \cup {i}, !.pc = "escalated"]
              ELSE [@ EXCEPT !.consumed = @ \cup {i},
                             !.processed_count = @ + 1,
                             !.success_count = IF job[st].fut[i] = "r0" THEN @ + 1 ELSE @,
                             !.status = "Item",
                             !.progress = Append(@, Progress(job[st].processed_count + 1,
                                                             job[st].total_files))]]
    /\ UNCHANGED <<mesh, arch_log, mergeVars, saveVars, fsVars, mgrVars, tabVars, envVars>>

\* The with block is left (shutdown waits for every submitted call), then
\* the final status, or the except clause; finally: QTimer.singleShot(0, cleanup).
pool_exit(st) ==
    /\ \A i \in DOMAIN job[st].fut : job[st].fut[i] \in Finished
    /\ \/ /\ job[st].pc = "pool"
          /\ job[st].consumed = DOMAIN job[st].fut
          /\ job' = [job EXCEPT ![st].status = "Completed", ![st].pc = "cleanup"]
       \/ /\ job[st].pc = "escalated"
          /\ job' = [job EXCEPT ![st].status = "Error", ![st].pc = "cleanup"]
    /\ UNCHANGED <<mesh, arch_log, mergeVars, saveVars, fsVars, mgrVars, tabVars, envVars>>

\* Mutant of reset_ui: the button is enabled, is_running stays set.
reset_ui_keep_flag(j) == [j EXCEPT !.submit_enabled = TRUE, !.pc = "idle"]

\* self.is_running = False; self.submit_btn.enabled = True
reset_ui(j) == [j EXCEPT !.is_running = FALSE, !.submit_enabled = TRUE, !.pc = "idle"]

\* _job_cleanup (the worker's locals stay readable until the next job)
job_cleanup(st) ==
    /\ job[st].pc = "cleanup"
    /\ job' = [job EXCEPT ![st] = reset_ui(@)]
    /\ UNCHANGED <<mesh, arch_log, mergeVars, saveVars, fsVars, mgrVars, tabVars, envVars>>

dist_consume_result == consume_result("dist")

dist_pool_exit == pool_exit("dist")

dist_job_cleanup == job_cleanup("dist")

(***************************************************************************)
(* The curvature stage                                                     *)
(***************************************************************************)

\* PyCurvWidget._run_job
curv_run_job ==
    /\ ~run_rejected(job["curv"])
    /\ job' = [job EXCEPT !["curv"] = StartedJob("Running...", exp_text)]
    /\ UNCHANGED <<mesh, arch_log, mergeVars, saveVars, fsVars, mgrVars, tabVars, envVars>>

\* _run_job_worker up to the creation of the pool: _update_config on the
\* worker thread, the script search, the checked files.
curv_worker_start ==
    /\ job["curv"].pc = "thread"
    /\ \E scriptFound \in BOOLEAN :
        IF ~work_dir_w \/ exp_text = ""
        THEN /\ job' = [job EXCEPT !["curv"].status = "Error", !["curv"].pc = "cleanup"]
             /\ UNCHANGED <<exps, current_config>>
        ELSE LET n == exp_text
                 n_files == n_inputs["curv"]
                 u == curv_update_config(exps[n], n, current_config, curv_w)
             IN  /\ exps' = [exps EXCEPT ![n] = u.e]
                 /\ current_config' = u.cur
                 /\ job' = [job EXCEPT !["curv"] =
                       IF u.raised # "none" THEN [@ EXCEPT !.status = "Error", !.pc = "cleanup"]
                       ELSE IF ~scriptFound
                       THEN [@ EXCEPT !.status = "Error: script not found", !.pc = "cleanup"]
                       ELSE IF n_files = 0
                       THEN no_work_items(@, "No VTP files selected")
                       ELSE [@ EXCEPT !.status = "Processing", !.pc = "pool",
                                      !.total_files = n_files,
                                      !.max_workers = Min(Get(u.cur, "cores", Leaf(6)).leaf, n_files),
                                      !.fut = [i \in 1..n_files |-> "pending"],
                                      !.runs = [i \in 1..n_files |-> 0]]]
    /\ UNCHANGED <<mesh, arch_log, mergeVars, saveVars, tabVars, envVars>>
    /\ UNCHANGED <<work_dir_w, exp_items, exp_index, exp_text, button_text, data_dir_w,
                   template_w, cores_w, seg_w, last_msg, mgr_log>>

\* process_vtp_file up to the start of the subprocess: a file outside
\* work_dir returns -1 at once.
curv_item_start ==
    /\ \E i \in Items, inside \in BOOLEAN :
        /\ CanStart(job["curv"], i)
        /\ job' = [job EXCEPT !["curv"].fut[i] = IF inside THEN "running" ELSE "rN",
                              !["curv"].runs[i] = @ + 1]
    /\ UNCHANGED <<mesh, arch_log, mergeVars, saveVars, fsVars, mgrVars, tabVars, envVars>>

\* The subprocess of item i ends: exit code 0 returns 0, CalledProcessError
\* returns 1, any other exception returns -1.
curv_item_finish ==
    /\ \E i \in Items, outcome \in {"exit0", "exitN", "raise"} :
        /\ i \in DOMAIN job["curv"].fut
        /\ job["curv"].fut[i] = "running"
        /\ job' = [job EXCEPT !["curv"].fut[i] = IF outcome = "exit0" THEN "r0" ELSE "rN"]
    /\ UNCHANGED <<mesh, arch_log, mergeVars, saveVars, fsVars, mgrVars, tabVars, envVars>>

curv_consume_result == consume_result("curv")

curv_pool_exit == pool_exit("curv")

curv_job_cleanup == job_cleanup("curv")

(***************************************************************************)
(* The mesh stage                                                          *)
(***************************************************************************)
\* The mesh widget after construction, the worker's locals, and what the
\* worker's last run printed about the script.
IdleMesh ==
    [submit_enabled |-> TRUE, status |-> "", pc |-> "idle", exp |-> "", config |-> EmptyDoc,
     printed |-> ""]

\* MeshGenerationWidget._run_job (the button is clickable while enabled)
mesh_run_job ==
    /\ mesh.submit_enabled
    /\ mesh' = [mesh EXCEPT !.submit_enabled = FALSE, !.status = "Running", !.pc = "thread"]
    /\ UNCHANGED <<job, arch_log, mergeVars, saveVars, fsVars, mgrVars, tabVars, envVars>>

\* MeshGenerationWidget._run_job_worker: _update_config, the script, its
\* exit code and the mesh files found afterwards.
mesh_worker ==
    /\ mesh.pc = "thread"
    /\ \E outcome \in {"no script", "exit0 meshes", "exit0 none", "exitN", "raise"} :
        IF ~work_dir_w \/ exp_text = ""
        THEN /\ mesh' = [mesh EXCEPT !.status = "Error", !.pc = "cleanup", !.printed = ""]
             /\ UNCHANGED exps
        ELSE LET n == exp_text
                 u == mesh_update_config(exps[n], n, mesh_w)
             IN  /\ exps' = [exps EXCEPT ![n] = u.e]
                 /\ mesh' = [mesh EXCEPT !.pc = "cleanup", !.status =
                       IF u.raised # "none" \/ outcome \in {"no script", "raise"} THEN "Error"
                       ELSE IF outcome = "exit0 meshes" THEN "Completed"
                       ELSE IF outcome = "exit0 none" THEN "Warning: No mesh files found"
                       ELSE "Failed",
                       !.printed = IF u.raised = "none" /\ outcome = "no script"
                                   THEN "Script not found" ELSE ""]
    /\ UNCHANGED <<job, arch_log, mergeVars, saveVars, mgrVars, tabVars, envVars>>

\* MeshGenerationWidget._job_cleanup
mesh_job_cleanup ==
    /\ mesh.pc = "cleanup"
    /\ mesh' = [mesh EXCEPT !.submit_enabled = TRUE, !.pc = "idle"]
    /\ UNCHANGED <<job, arch_log, mergeVars, saveVars, fsVars, mgrVars, tabVars, envVars>>

(***************************************************************************)
(* The workers' _update_config step by step.  The curvature and the mesh   *)
(* stage call it on their worker thread: between the read of the file and  *)
(* the write of the updated mapping the other threads run.                 *)
(***************************************************************************)

\* MeshGenerationWidget._run_job_worker up to yaml.load in _update_config.
mesh_read_config ==
    /\ mesh.pc = "thread"
    /\ IF ~work_dir_w \/ exp_text = ""
       THEN /\ mesh' = [mesh EXCEPT !.status = "Error", !.pc = "cleanup", !.printed = ""]
            /\ UNCHANGED exps
       ELSE LET n == exp_text
                u == mesh_update_config(exps[n], n, mesh_w)
            IN  IF u.raised # "none"
                THEN /\ exps' = [exps EXCEPT ![n] = u.e]
                     /\ mesh' = [mesh EXCEPT !.status = "Error", !.pc = "cleanup",
                                             !.printed = ""]
                ELSE /\ exps' = [exps EXCEPT ![n].results.exists = TRUE]
                     /\ mesh' = [mesh EXCEPT !.pc = "loaded", !.exp = n,
                                             !.config = exps[n].pref.doc]
    /\ UNCHANGED <<job, arch_log, mergeVars, saveVars, mgrVars, tabVars, envVars>>

\* MeshGenerationWidget._run_job_worker from the assignment of the section
\* on: the dump of the mapping, the script, its exit code, the mesh files.
mesh_write_config ==
    /\ mesh.pc = "loaded"
    /\ \E outcome \in {"no script", "exit0 meshes", "exit0 none", "exitN", "raise"} :
        LET n == mesh.exp
            d == SetKey(mesh.config, MeshSection, mesh_section(n, mesh_w))
        IN  /\ exps' = [exps EXCEPT ![n] = write_config(@, "pref", d)]
            /\ mesh' = [mesh EXCEPT !.pc = "cleanup", !.status =
                  IF outcome \in {"no script", "raise"} THEN "Error"
                  ELSE IF outcome = "exit0 meshes" THEN "Completed"
                  ELSE IF outcome = "exit0 none" THEN "Warning: No mesh files found"
                  ELSE "Failed",
                  !.printed = IF outcome = "no script" THEN "Script not found" ELSE ""]
    /\ UNCHANGED <<job, arch_log, mergeVars, saveVars, mgrVars, tabVars, envVars>>

\* PyCurvWidget._run_job_worker up to the load of the file in _update_config.
curv_read_config ==
    /\ job["curv"].pc = "thread"
    /\ IF ~work_dir_w \/ exp_text = "" \/ current_config = EmptyDoc
       THEN job' = [job EXCEPT !["curv"].status = "Error", !["curv"].pc = "cleanup"]
       ELSE job' = [job EXCEPT !["curv"].pc = "loaded", !["curv"].exp = exp_text,
                               !["curv"].loaded = load_existing(exps[exp_text], current_config)]
    /\ UNCHANGED <<mesh, arch_log, mergeVars, saveVars, fsVars, mgrVars, tabVars, envVars>>

\* PyCurvWidget._run_job_worker from the update of the mapping on: the dump,
\* the script search, the checked files (none: the worker returns).
curv_write_config ==
    /\ job["curv"].pc = "loaded"
    /\ n_inputs["curv"] = 0
    /\ \E scriptFound \in BOOLEAN :
        LET n == job["curv"].exp
            l == job["curv"].loaded
            d == curv_merged(l.existing, n, current_config, curv_w)
            cur1 == IF l.snapshot /\ Has(current_config, CurvSection)
                    THEN section_update(current_config, CurvSection, curv_w)
                    ELSE current_config
        IN  /\ current_config' = cur1
            /\ IF ~exps[n].dir
               THEN /\ UNCHANGED exps
                    /\ job' = [job EXCEPT !["curv"].status = "Error", !["curv"].pc = "cleanup"]
               ELSE /\ exps' = [exps EXCEPT ![n] = write_config(@, l.path, d)]
                    /\ job' = [job EXCEPT !["curv"] =
                          IF ~scriptFound
                          THEN [@ EXCEPT !.status = "Error: script not found", !.pc = "cleanup"]
                          ELSE no_work_items(@, "No VTP files selected")]
    /\ UNCHANGED <<mesh, arch_log, mergeVars, saveVars, tabVars, envVars>>
    /\ UNCHANGED <<work_dir_w, exp_items, exp_index, exp_text, button_text, data_dir_w,
                   template_w, cores_w, seg_w, last_msg, mgr_log>>

(***************************************************************************)
(* Specifications                                                          *)
(***************************************************************************)
\* The state of the other parts while one part is exercised.
TabsDefault ==
    /\ mesh_w = [k \in MeshKeys |-> 0]
    /\ curv_w = [k \in CurvKeys |-> 0]
    /\ dist_w = [k \in DistKeys |-> 0]

\* The manager right after construction.
MgrStart ==
    /\ current_config = EmptyDoc
    /\ work_dir_w = FALSE
    /\ exp_items = {}
    /\ exp_index = FALSE
    /\ exp_text = ""
    /\ button_text = "New Experiment"
    /\ data_dir_w = NoPath
    /\ template_w = FALSE
    /\ cores_w = DefaultCores
    /\ seg_w = EmptyDoc
    /\ last_msg = "none"
    /\ mgr_log = NoLoad

FsEmpty == exps = [n \in ExpNames |-> NoExp]

\* No job has run, the clock starts, nothing is at the alias paths.
JobsIdle ==
    /\ job = [st \in Stages |-> IdleJob]
    /\ mesh = IdleMesh
    /\ arch_log = NoCall
    /\ now = 0
    /\ links = [i \in Items |-> "absent"]
    /\ n_inputs = [st \in Stages |-> 0]

MergeNext == update

InitMerge == MergeInit /\ SaveIdle /\ FsEmpty /\ MgrStart /\ TabsDefault /\ JobsIdle

SpecMerge == InitMerge /\ [][MergeNext]_vars

SaveNext == save \/ update_content

InitSave == SaveInit /\ MergeIdle /\ FsEmpty /\ MgrStart /\ TabsDefault /\ JobsIdle

SpecSave == InitSave /\ [][SaveNext]_vars

\* Experiment directories as earlier sessions can have left them.
ExpCreated(n) ==
    [dir |-> TRUE, pref |-> OkFile(PopulatedDoc(n, 1)), fb |-> AbsentFile, results |-> NoResults]

ExpDirStates(n) ==
    {NoExp, ExpCreated(n),
     [dir |-> TRUE, pref |-> AbsentFile, fb |-> AbsentFile, results |-> NoResults],
     [dir |-> TRUE, pref |-> AbsentFile, fb |-> OkFile(BareDoc(n)), results |-> NoResults],
     [dir |-> TRUE, pref |-> MalformedFile, fb |-> AbsentFile, results |-> NoResults]}

InitExp ==
    /\ \E a \in ExpDirStates("e1") :
            exps = [n \in ExpNames |-> IF n = "e1" THEN a ELSE NoExp]
    /\ MgrStart /\ TabsDefault /\ MergeIdle /\ SaveIdle /\ JobsIdle

ExpNext ==
    \/ update_experiment_names
    \/ select_experiment
    \/ type_name
    \/ pick_data_dir
    \/ pick_template
    \/ edit_cores_segmentation
    \/ create_experiment

SpecExp == InitExp /\ [][ExpNext]_vars


\* A second experiment next to a created one, as a user or an earlier
\* session can have left it: none, a config without stage sections, a
\* hand-written partial config, a file that does not parse, an empty file.
OtherExps ==
    {NoExp} \cup
    {[dir |-> TRUE, pref |-> f, fb |-> AbsentFile, results |-> NoResults] :
        f \in {OkFile(BareDoc("e2")), OkFile(PartialDoc), MalformedFile, OkFile(EmptyDoc)}}

\* Loading and resuming experiments of a work directory that holds the
\* created experiment e1 and possibly a second one.
InitLoad ==
    /\ \E b \in OtherExps :
          exps = [n \in ExpNames |-> IF n = "e1" THEN ExpCreated("e1") ELSE b]
    /\ MgrStart /\ TabsDefault /\ MergeIdle /\ SaveIdle /\ JobsIdle

LoadNext ==
    \/ update_experiment_names
    \/ select_experiment
    \/ type_name
    \/ pick_data_dir
    \/ pick_template
    \/ create_experiment

SpecLoad == InitLoad /\ [][LoadNext]_vars

\* The manager after experiment n, found with the config document d, was
\* selected in the list of the work directory.
MgrLoaded(n, d) ==
    /\ current_config = d
    /\ work_dir_w = TRUE
    /\ exp_items = {n}
    /\ exp_index = TRUE
    /\ exp_text = n
    /\ button_text = "Resume Experiment"
    /\ data_dir_w = Get(d, "data_dir", NoPath)
    /\ template_w = TRUE
    /\ cores_w = Get(d, "cores", Leaf(DefaultCores)).leaf
    /\ seg_w = Get(d, "segmentation_values", EmptyDoc)
    /\ last_msg = "none"
    /\ mgr_log = [NoLoad EXCEPT !.exp = n, !.emits = IF d = EmptyDoc THEN 0 ELSE 1]

\* The tabs after config_loaded was handled for document d.
TabsLoaded(d) ==
    /\ mesh_w = mesh_on_config_loaded(d, [k \in MeshKeys |-> 0])
    /\ curv_w = curv_on_config_loaded(d, [k \in CurvKeys |-> 0])
    /\ dist_w = dist_on_config_loaded(d, [k \in DistKeys |-> 0])

\* Experiment e1 as the manager loads it: created by the tool, or holding a
\* hand-written config.yml only.
LoadableExps ==
    {ExpCreated("e1"),
     [dir |-> TRUE, pref |-> AbsentFile, fb |-> OkFile(BareDoc("e1")), results |-> NoResults]}

\* Distance jobs on a loaded experiment: any number of input files, the
\* alias paths free or occupied by links an interrupted run left behind.
InitDist ==
    /\ \E e \in LoadableExps :
        /\ exps = [n \in ExpNames |-> IF n = "e1" THEN e ELSE NoExp]
        /\ MgrLoaded("e1", FoundConfig(e).doc)
        /\ TabsLoaded(FoundConfig(e).doc)
    /\ job = [st \in Stages |-> IdleJob]
    /\ mesh = IdleMesh
    /\ arch_log = NoCall
    /\ now = 0
    /\ links \in [Items -> {"absent", "stale", "dangling"}]
    /\ n_inputs \in [Stages -> 0..MaxItems]
    /\ n_inputs["curv"] = 0
    /\ MergeIdle /\ SaveIdle

DistNext ==
    \/ dist_run_job
    \/ dist_worker_start
    \/ dist_item_start
    \/ dist_item_finish
    \/ dist_consume_result
    \/ dist_pool_exit
    \/ dist_job_cleanup

SpecDist == InitDist /\ [][DistNext]_vars

\* Curvature jobs on a loaded experiment, any number of checked files.
InitCurv ==
    /\ \E e \in LoadableExps \cup {NoExp} :
        /\ exps = [n \in ExpNames |-> IF n = "e1" THEN e ELSE NoExp]
        /\ \E d \in {FoundConfig(e).doc, TemplateDoc} \ {EmptyDoc} :
            MgrLoaded("e1", d) /\ TabsLoaded(d)
    /\ job = [st \in Stages |-> IdleJob]
    /\ mesh = IdleMesh
    /\ arch_log = NoCall
    /\ now = 0
    /\ links = [i \in Items |-> "absent"]
    /\ n_inputs \in [Stages -> 0..MaxItems]
    /\ n_inputs["dist"] = 0
    /\ MergeIdle /\ SaveIdle

CurvNext ==
    \/ curv_run_job
    \/ curv_worker_start
    \/ curv_item_start
    \/ curv_item_finish
    \/ curv_consume_result
    \/ curv_pool_exit
    \/ curv_job_cleanup

SpecCurv == InitCurv /\ [][CurvNext]_vars

\* Results directories as earlier runs can have left them: empty, holding
\* outputs the distance stage looks for, holding none of them, or holding
\* every entry of the model; and possibly an archive made at time 0.
ResultsStates ==
    {[exists |-> TRUE, top |-> t,
      arch |-> [u \in Times |-> IF u = 0 THEN a ELSE NoArchive]] :
        t \in {{}, {NameA, NameB}, {NameHidden, NameAVV, NameVtp}, ResNames},
        a \in {NoArchive, [made |-> TRUE, items |-> {NameA}]}}
    \cup {NoResults}

\* The archive check on a loaded experiment, called directly and by
\* distance jobs (which find no input file and end at once).
InitArchive ==
    /\ \E e \in LoadableExps, r \in ResultsStates :
        /\ exps = [n \in ExpNames |-> IF n = "e1" THEN [e EXCEPT !.results = r] ELSE NoExp]
        /\ MgrLoaded("e1", FoundConfig(e).doc)
        /\ TabsLoaded(FoundConfig(e).doc)
    /\ job = [st \in Stages |-> IdleJob]
    /\ mesh = IdleMesh
    /\ arch_log = NoCall
    /\ now = 0
    /\ links = [i \in Items |-> "absent"]
    /\ n_inputs = [st \in Stages |-> 0]
    /\ MergeIdle /\ SaveIdle

ArchiveNext ==
    \/ archive_check
    \/ tick
    \/ dist_run_job
    \/ dist_worker_start
    \/ dist_job_cleanup

SpecArchive == InitArchive /\ [][ArchiveNext]_vars

\* The stages' config updates on a loaded experiment: jobs without input
\* files, which end right after the config was written.
InitStages ==
    /\ \E e \in LoadableExps :
        /\ exps = [n \in ExpNames |-> IF n = "e1" THEN e ELSE NoExp]
        /\ MgrLoaded("e1", FoundConfig(e).doc)
        /\ TabsLoaded(FoundConfig(e).doc)
    /\ job = [st \in Stages |-> IdleJob]
    /\ mesh = IdleMesh
    /\ arch_log = NoCall
    /\ now = 0
    /\ links = [i \in Items |-> "absent"]
    /\ n_inputs = [st \in Stages |-> 0]
    /\ MergeIdle /\ SaveIdle

StagesNext ==
    \/ edit_settings
    \/ mesh_run_job
    \/ mesh_worker
    \/ mesh_job_cleanup
    \/ curv_run_job
    \/ curv_worker_start
    \/ curv_job_cleanup
    \/ dist_run_job
    \/ dist_worker_start
    \/ dist_job_cleanup

SpecStages == InitStages /\ [][StagesNext]_vars

\* Mesh and curvature jobs started on the same loaded experiment, the
\* workers' reads and writes of the config file interleaved.
WritersNext ==
    \/ edit_settings
    \/ mesh_run_job
    \/ mesh_read_config
    \/ mesh_write_config
    \/ mesh_job_cleanup
    \/ curv_run_job
    \/ curv_read_config
    \/ curv_write_config
    \/ curv_job_cleanup

SpecWriters == InitStages /\ [][WritersNext]_vars

\* A work directory with the created experiment e1 and an experiment e2
\* whose config file does not parse: experiments are selected and resumed,
\* and curvature and distance jobs (without input files) run on the
\* selected one.
InitMalformed ==
    /\ exps = [n \in ExpNames |->
                  IF n = "e1" THEN ExpCreated("e1")
                  ELSE [dir |-> TRUE, pref |-> MalformedFile, fb |-> AbsentFile,
                        results |-> NoResults]]
    /\ MgrStart /\ TabsDefault /\ MergeIdle /\ SaveIdle /\ JobsIdle

MalformedNext ==
    \/ update_experiment_names
    \/ select_experiment
    \/ create_experiment
    \/ curv_run_job
    \/ curv_worker_start
    \/ curv_job_cleanup
    \/ dist_run_job
    \/ dist_worker_start
    \/ dist_job_cleanup

SpecMalformed == InitMalformed /\ [][MalformedNext]_vars

\* The most input files of a stage when both stages run jobs.
MaxPoolItems == 2

\* Curvature and distance jobs on the same loaded experiment, each stage
\* with at least one input file; the experiment was created by the tool or
\* holds a hand-written config without the cores key.
InitPool ==
    /\ \E d \in {PopulatedDoc("e1", 1), NoCoresDoc("e1")} :
        /\ exps = [n \in ExpNames |->
                      IF n = "e1"
                      THEN [dir |-> TRUE, pref |-> OkFile(d), fb |-> AbsentFile,
                            results |-> NoResults]
                      ELSE NoExp]
        /\ MgrLoaded("e1", d)
        /\ TabsLoaded(d)
    /\ job = [st \in Stages |-> IdleJob]
    /\ mesh = IdleMesh
    /\ arch_log = NoCall
    /\ now = 0
    /\ links = [i \in Items |-> "absent"]
    /\ n_inputs \in [Stages -> 1..MaxPoolItems]
    /\ MergeIdle /\ SaveIdle

PoolNext ==
    \/ curv_run_job
    \/ curv_worker_start
    \/ curv_item_start
    \/ curv_item_finish
    \/ curv_consume_result
    \/ curv_pool_exit
    \/ curv_job_cleanup
    \/ dist_run_job
    \/ dist_worker_start
    \/ dist_item_start
    \/ dist_item_finish
    \/ dist_consume_result
    \/ dist_pool_exit
    \/ dist_job_cleanup

SpecPool == InitPool /\ [][PoolNext]_vars

\* Curvature and distance jobs without input files.  The worker thread runs
\* once started, and the event loop of the GUI thread runs the cleanup the
\* worker queued with QTimer.singleShot(0, ...).
NoItemsNext ==
    \/ curv_run_job
    \/ curv_worker_start
    \/ curv_job_cleanup
    \/ dist_run_job
    \/ dist_worker_start
    \/ dist_job_cleanup

SpecNoItems ==
    /\ InitStages /\ [][NoItemsNext]_vars
    /\ WF_vars(curv_worker_start) /\ WF_vars(curv_job_cleanup)
    /\ WF_vars(dist_worker_start) /\ WF_vars(dist_job_cleanup)

(***************************************************************************)
(* Claims                                                                  *)
(***************************************************************************)

\* The merge as section 4.1 of the specification states it, key by key.
RECURSIVE RefMerge(_, _)
RefMerge(b, u) ==
    MapOf([k \in DOMAIN b.kids \cup DOMAIN u.kids |->
        IF k \notin DOMAIN u.kids THEN b.kids[k]
        ELSE IF k \in DOMAIN b.kids /\ b.kids[k].isMap /\ u.kids[k].isMap
             THEN RefMerge(b.kids[k], u.kids[k])
             ELSE u.kids[k]])

\* C9: deep_merge(base, updates) is the reference merge: mappings on both
\* sides are merged recursively, any other update value replaces the base
\* value, keys only in base are kept and keys only in updates are added; an
\* update without section B leaves section B as it was.
C9_DeepMergeIsReference ==
    mDone =>
        /\ mOut = RefMerge(mBase, mUpdates)
        /\ ("B" \in DOMAIN mBase.kids /\ "B" \notin DOMAIN mUpdates.kids)
              => ("B" \in DOMAIN mOut.kids /\ mOut.kids["B"] = mBase.kids["B"])

\* C9 witness: section A is a mapping on both sides and the merge kept a base
\* key and took an update key, while section B, absent from the update, exists.
C9_Witness ==
    /\ mDone
    /\ "A" \in DOMAIN mBase.kids /\ "A" \in DOMAIN mUpdates.kids
    /\ mBase.kids["A"].isMap /\ mUpdates.kids["A"].isMap
    /\ mOut.kids["A"] # mBase.kids["A"] /\ mOut.kids["A"] # mUpdates.kids["A"]
    /\ "B" \in DOMAIN mBase.kids /\ "B" \notin DOMAIN mUpdates.kids

\* C10: a save that fails leaves the file with what it held before the call
\* and raises; a save that succeeds leaves it with the new content.
C10_SaveAtomic ==
    /\ saveRes = "raised" => fileC = prevFile
    /\ saveRes = "ok" => fileC = content

\* C10 witness: the write failed after truncating the file, the save raised
\* and the file holds the earlier content, which differs from the new text.
C10_Witness ==
    /\ saveRes = "raised" /\ saveFail = "write"
    /\ fileC = prevFile /\ fileC # content


\* C7: creating an experiment whose directory already holds a config file
\* fails (no "Success" is reported) and leaves every file as it was, however
\* the create action was reached.
C7_CreateExistingFails ==
    [][(create_experiment /\ button_text # "Resume Experiment"
            /\ exp_text # "" /\ Exists(exps[exp_text].pref))
        => (exps' = exps /\ last_msg' # "Success")]_vars


\* The worker of stage st has left the pool of a job with input files.
JobEnded(st) == job[st].pc \in {"cleanup", "idle"} /\ job[st].total_files > 0

\* The items of a job whose executor raised or whose process exited non-zero.
FailedItems(j) == {i \in DOMAIN j.fut : j.fut[i] \in {"rN"} \cup Raised}

\* C1: a job in which exactly one item fails (its executor raises, the alias
\* cannot be created, or its process exits non-zero) still ends with N
\* results, N-1 of them successes, and without a job-level error.
C1_PartialFailureIsolation ==
    \A st \in Stages :
        (JobEnded(st) /\ Cardinality(FailedItems(job[st])) = 1)
        => /\ job[st].processed_count = job[st].total_files
           /\ job[st].success_count = job[st].total_files - 1
           /\ job[st].status = "Completed"

\* C2: at the end of a job every item was executed exactly once, N results
\* were processed, and the successes are the items that exited with code 0.
C2_ExactlyOnce ==
    \A st \in Stages :
        JobEnded(st)
        => /\ \A i \in DOMAIN job[st].runs : job[st].runs[i] = 1
           /\ job[st].processed_count = job[st].total_files
           /\ job[st].success_count
                = Cardinality({i \in DOMAIN job[st].fut : job[st].fut[i] = "r0"})

\* C3: once a distance job has ended, no alias the job created is left at
\* any item's alias path, whatever way the item's executor ended.
C3_AliasCleanup ==
    JobEnded("dist") => \A i \in DOMAIN job["dist"].fut : links[i] # "alias"

\* C3 witness: a job of three items ended: one succeeded, one exited
\* non-zero, one raised while its alias existed.
C3_Witness ==
    /\ JobEnded("dist")
    /\ \E i, k, m \in DOMAIN job["dist"].fut :
        /\ job["dist"].fut[i] = "r0"
        /\ job["dist"].fut[k] = "rN"
        /\ job["dist"].fut[m] = "excR"

\* C4: the progress values of a job never decrease, and a job that ended
\* sent one update per item after the initial 0, the last of them 100.
C4_ProgressMonotone ==
    \A st \in Stages :
        LET pr == job[st].progress
        IN  /\ \A a, b \in DOMAIN pr : a <= b => pr[a] <= pr[b]
            /\ JobEnded(st) => /\ Len(pr) = 1 + job[st].total_files
                               /\ pr[Len(pr)] = 100


\* The archive directory of the last call of check_and_archive_outputs.
LoggedArchive == arch_log.after.arch[arch_log.ts]

\* C5: after the decision Archive none of the matched entries is directly
\* in results_dir, archive_<timestamp> holds all of them and a snapshot of
\* the config, no other archive directory was touched (nor the new one
\* moved), and the call returned Proceed.
C5_ArchiveOutcome ==
    arch_log.decision = "archive"
    => /\ arch_log.found \cap Entries(arch_log.after) = {}
       /\ LoggedArchive.made
       /\ arch_log.found \subseteq LoggedArchive.items
       /\ Snapshot \in LoggedArchive.items
       /\ \A t \in Times \ {arch_log.ts} : arch_log.after.arch[t] = arch_log.before.arch[t]
       /\ ArchNames \cap LoggedArchive.items = {}
       /\ arch_log.ret = "true"

\* C6: Cancel, Overwrite and the case without a match leave results_dir as
\* it was; Cancel returns Abort and a distance job is then not started,
\* Overwrite returns Proceed, and without a match (or without results_dir)
\* the call returns Proceed without prompting.
C6_NoChangeDecisions ==
    /\ arch_log.decision \in {"cancel", "overwrite", "noprompt"}
        => arch_log.after = arch_log.before
    /\ arch_log.decision = "cancel"
        => /\ arch_log.ret = "false"
           /\ arch_log.caller = "dist"
               => ~job["dist"].is_running /\ job["dist"].pc = "idle"
    /\ arch_log.decision = "overwrite" => arch_log.ret = "true"
    /\ (arch_log.calls > 0 /\ (~arch_log.before.exists \/ arch_log.found = {}))
        => arch_log.decision = "noprompt" /\ arch_log.ret = "true"
    /\ arch_log.decision = "noprompt"
        => ~arch_log.before.exists \/ arch_log.found = {}

\* C6 witness: the distance stage's check found outputs, the user cancelled.
C6_Witness ==
    /\ arch_log.caller = "dist" /\ arch_log.decision = "cancel"
    /\ arch_log.found = {NameA, NameB}
    /\ ~job["dist"].is_running

\* Every top-level key of document b other than sec is in a with the same value.
KeptOutside(b, a, sec) ==
    \A k \in DOMAIN b.kids \ {sec} : Has(a, k) /\ a.kids[k] = b.kids[k]

\* Every key of b's section sec that is not in named is in a's section with
\* the same value.
KeptInside(b, a, sec, named) ==
    Has(b, sec)
    => /\ Has(a, sec)
       /\ \A k \in DOMAIN b.kids[sec].kids \ named :
            Has(a.kids[sec], k) /\ a.kids[sec].kids[k] = b.kids[sec].kids[k]

\* C8: a stage's config update changes, in the persisted config, nothing
\* but the keys of its own section that it names.
C8_UpdateKeepsRest ==
    [][\A n \in ExpNames :
        LET b == FoundConfig(exps[n])
            a == FoundConfig(exps'[n])
        IN (b.st = "ok" /\ a # b)
           => \/ /\ dist_run_job
                 /\ KeptOutside(b.doc, a.doc, DistSection)
                 /\ KeptInside(b.doc, a.doc, DistSection, DistKeys)
              \/ /\ curv_worker_start
                 /\ KeptOutside(b.doc, a.doc, CurvSection)
                 /\ KeptInside(b.doc, a.doc, CurvSection, CurvKeys)
              \/ /\ mesh_worker
                 /\ KeptOutside(b.doc, a.doc, MeshSection)
                 /\ KeptInside(b.doc, a.doc, MeshSection, MeshKeys \cup {"output_dir"})]_vars

\* A step of _resume_experiment that loaded the config of the experiment
\* named in the box and emitted config_loaded.
ResumeStep ==
    create_experiment /\ button_text = "Resume Experiment" /\ mgr_log' # mgr_log

\* C11: a resume of the experiment resumed last, whose config file is as it
\* was then, leaves the same in-memory config as that resume left.
C11_IdempotentResume ==
    [][(/\ ResumeStep
        /\ mgr_log.resumed.name = exp_text
        /\ mgr_log.resumed.file = FoundConfig(exps[exp_text]))
       => current_config' = mgr_log.resumed.cfg]_vars

\* C12: a resume of an experiment whose directory or config file does not
\* exist changes nothing (in-memory config, form fields, stage settings,
\* files, no config_loaded emission) but the message shown, which is the
\* resume error.
C12_ResumeNotFound ==
    [][(/\ create_experiment
        /\ button_text = "Resume Experiment"
        /\ ~exps[exp_text].dir \/ ~Exists(FoundConfig(exps[exp_text])))
       => /\ current_config' = current_config
          /\ exps' = exps
          /\ tabVars' = tabVars
          /\ mgr_log' = mgr_log
          /\ <<data_dir_w, template_w, cores_w, seg_w>>' = <<data_dir_w, template_w, cores_w, seg_w>>
          /\ last_msg' = "Resume Error" \/ UNCHANGED vars]_vars

\* C12 witness: the resume error is shown for a name without a config
\* file, while the config of the experiment selected before is in memory.
C12_Witness ==
    /\ last_msg = "Resume Error"
    /\ button_text = "Resume Experiment"
    /\ exp_text # ""
    /\ ~Exists(FoundConfig(exps[exp_text]))
    /\ current_config # EmptyDoc
    /\ mgr_log.exp # exp_text

\* The user types a name that is no item of the list while a selected
\* experiment, whose config was loaded, is in hand.
TypesNewName ==
    /\ type_name
    /\ exp_text' \notin exp_items
    /\ exp_index /\ mgr_log.emits > 0

\* C13: typing a brand-new name after an experiment was loaded moves the
\* session to the new-experiment state and leaves nothing of the loaded
\* experiment in the form fields or in the in-memory config.
C13_NewNameResets ==
    [][TypesNewName
       => /\ button_text' = "Start New Experiment"
          /\ data_dir_w' = NoPath
          /\ template_w' = FALSE
          /\ cores_w' \in {1, DefaultCores}
          /\ seg_w' = EmptyDoc
          /\ current_config' = EmptyDoc]_vars

\* A selection (by the user, or of the first item when the work directory
\* is picked) of an experiment whose config file parses to a mapping.
LoadStep ==
    /\ select_experiment \/ update_experiment_names
    /\ exp_index'
    /\ FoundConfig(exps[exp_text']).st = "ok"
    /\ FoundConfig(exps[exp_text']).doc # EmptyDoc

\* A selection of an experiment whose config file does not load.
FailedLoadStep ==
    /\ select_experiment \/ update_experiment_names
    /\ exp_index'
    /\ FoundConfig(exps[exp_text']).st # "ok"

\* The stage tabs handled config_loaded with the new current_config.
Rehydrated ==
    /\ mesh_w' = mesh_on_config_loaded(current_config', mesh_w)
    /\ curv_w' = curv_on_config_loaded(current_config', curv_w)
    /\ dist_w' = dist_on_config_loaded(current_config', dist_w)

\* C14: a successful load emits config_loaded once, after current_config
\* was replaced, and every stage handles it; a load that fails emits none;
\* from the selection of an experiment on, resume included, the stages are
\* rehydrated once.
C14_SingleRehydration ==
    [][/\ LoadStep => mgr_log'.emits = 1 /\ Rehydrated
       /\ ResumeStep => Rehydrated
       /\ FailedLoadStep => mgr_log'.emits = 0 /\ tabVars' = tabVars
       /\ mgr_log'.emits <= 1]_vars


\* The value a stage shows for key k of its section sec after a load:
\* the file's value, and the stage's default where the file has none.
SectionValue(cfg, sec, k) == Get(Get(cfg, sec, EmptyDoc), k, Leaf(0)).leaf

\* A step that broadcasts config-loaded with a config in memory.
EmitStep == (LoadStep \/ ResumeStep) /\ current_config' # EmptyDoc

\* C15: when config-loaded arrives, every setting of every stage shows the
\* value its own section of the loaded config has for it, and the stage's
\* default where the section or the key is absent (the distance stage's
\* intra and inter lists included), never a value left from the experiment
\* loaded before.
C15_AbsentMeansDefault ==
    [][EmitStep =>
         /\ \A k \in MeshKeys : mesh_w'[k] = SectionValue(current_config', MeshSection, k)
         /\ \A k \in CurvKeys : curv_w'[k] = SectionValue(current_config', CurvSection, k)
         /\ \A k \in DistKeys : dist_w'[k] = SectionValue(current_config', DistSection, k)]_vars


\* The worker of stage st found no work item.
FoundNoItems(st) == job[st].status \in {"No VTP files selected", "Error: No MRC files found"}

\* Stage st is idle again: not running, the submit button enabled.
BackToIdle(st) == job[st].pc = "idle" /\ ~job[st].is_running /\ job[st].submit_enabled

ConfiguredCores(st) == Get(FoundConfig(exps[job[st].exp]).doc, "cores", Leaf(1)).leaf

\* C17: once a job has work items, its pool size is the smaller of the
\* configured cores of the experiment's config and the number of items,
\* and at least 1; the curvature and the distance stage take the same
\* cores value.
C17_PoolSize ==
    \A st \in Stages :
        job[st].total_files > 0 =>
            /\ job[st].max_workers = Min(ConfiguredCores(st), job[st].total_files)
            /\ job[st].max_workers >= 1


\* The config files of the experiments.
ConfigFiles == [n \in ExpNames |-> <<exps[n].pref, exps[n].fb>>]

\* A step of a job's background thread.
WorkerThreadStep ==
    \/ mesh_read_config
    \/ mesh_write_config
    \/ curv_read_config
    \/ curv_write_config

\* The section sec of the config file experiment n is found with.
FileSection(n, sec) == Get(FoundConfig(exps[n]).doc, sec, EmptyDoc)

\* C18: the config file is written before a job starts and never by a step
\* of a job's background thread; and whatever the interleaving of a mesh
\* job and a curvature job on one experiment, the write of one stage leaves
\* the other stage's section in the file as the last write made it (no
\* update is lost).
C18_SingleWriter ==
    [][/\ WorkerThreadStep => ConfigFiles' = ConfigFiles
       /\ \A n \in ExpNames :
            /\ mesh_write_config => FileSection(n, CurvSection)' = FileSection(n, CurvSection)
            /\ curv_write_config => FileSection(n, MeshSection)' = FileSection(n, MeshSection)]_vars


\* A step in which a stage looks for its script, at the start of a job, and
\* does not find it.
MeshScriptMissing == mesh_worker /\ mesh'.printed = "Script not found"

CurvScriptMissing == curv_worker_start /\ job'["curv"].status = "Error: script not found"

DistScriptMissing == dist_run_job /\ job'["dist"].msg = "Script Not Found"

\* C19: when a stage finds its script missing, the job is not started: the
\* stage has no worker thread before or after the step (the error comes
\* from the click's handler), and no work item is run.
C19_ScriptMissing ==
    [][/\ MeshScriptMissing => mesh.pc = "idle" /\ mesh'.pc = "idle"
       /\ \A st \in Stages :
            (IF st = "curv" THEN CurvScriptMissing ELSE DistScriptMissing)
                => /\ job[st].pc = "idle" /\ job'[st].pc = "idle"
                   /\ ~job[st].is_running /\ ~job'[st].is_running
                   /\ job'[st].fut = <<>>]_vars


\* The config file of experiment n does not parse.
Malformed(n) == n # "" /\ exps[n].dir /\ FoundConfig(exps[n]).st = "malformed"

\* The steps that read a config file that does not parse: a selection, a
\* confirmed resume, and _update_config of the curvature and the distance
\* stage.
SelectsMalformed ==
    (select_experiment \/ update_experiment_names) /\ exp_index' /\ Malformed(exp_text')

ResumesMalformed ==
    create_experiment /\ button_text = "Resume Experiment" /\ Malformed(exp_text)

CurvUpdatesMalformed ==
    curv_worker_start /\ work_dir_w /\ current_config # EmptyDoc /\ Malformed(exp_text)

DistUpdatesMalformed ==
    dist_run_job /\ current_config # EmptyDoc /\ Malformed(exp_text)

\* Nothing of the files and of the in-memory config changes in the step.
ConfigsKept == ConfigFiles' = ConfigFiles /\ current_config' = current_config

\* C20: an operation that reads a config file that does not parse is
\* aborted and the failure shown (a message of the manager, the error
\* dialog or the error status of the stage); the files and the in-memory
\* config stay as they were and no job runs on.
C20_MalformedAborts ==
    [][/\ SelectsMalformed => ConfigsKept /\ last_msg' # last_msg
       /\ ResumesMalformed => ConfigsKept /\ last_msg' = "Resume Error"
       /\ CurvUpdatesMalformed =>
            ConfigsKept /\ job'["curv"].status = "Error" /\ job'["curv"].pc = "cleanup"
       /\ DistUpdatesMalformed =>
            ConfigsKept /\ job'["dist"].msg = "Error" /\ ~job'["dist"].is_running]_vars


\* Experiment n has a config file written by _create_new_experiment (the
\* only writer of exp_name).
Created(n) == exps[n].dir /\ exps[n].pref.st = "ok" /\ Has(exps[n].pref.doc, "exp_name")

\* The paths that name a directory known to exist: the directories the
\* user picked in the dialogs, and the experiment and results directories
\* that were made.  The data_dir a template file carries is a path of the
\* template's author.
ExistingDirs ==
    {DataDirLeaf, WorkDirLeaf}
    \cup {ExpDirLeaf(n) : n \in {m \in ExpNames : exps[m].dir}}
    \cup {ExpDirSepLeaf(n) : n \in {m \in ExpNames : exps[m].dir}}
    \cup {ResultsLeaf(n) : n \in {m \in ExpNames : exps[m].results.exists}}
    \cup {ResultsSepLeaf(n) : n \in {m \in ExpNames : exps[m].results.exists}}

\* C21: the config file of a created experiment has a cores value that is
\* an integer >= 1, and its work_dir and data_dir name existing
\* directories.
C21_PersistedConfig ==
    \A n \in ExpNames :
        Created(n) =>
            LET d == exps[n].pref.doc
            IN  /\ Has(d, "cores") /\ ~d.kids["cores"].isMap /\ d.kids["cores"].leaf >= 1
                /\ Has(d, "work_dir") /\ d.kids["work_dir"] \in ExistingDirs
                /\ Has(d, "data_dir") /\ d.kids["data_dir"] \in ExistingDirs


\* round(100 * completed / total), halves rounded up.
Rounded(completed, total) == (200 * completed + total) \div (2 * total)

\* C22: the progress value sent after the completed-th item of a job with
\* total items is round(100 * completed / total), and lies in 0..100.
C22_ProgressRounded ==
    \A st \in Stages :
        \A i \in 2..Len(job[st].progress) :
            /\ job[st].progress[i] = Rounded(i - 1, job[st].total_files)
            /\ job[st].progress[i] \in 0..100


\* The entries of the logged call's results_dir that match a file pattern
\* and no exclude pattern: no hidden file, a directory only when it is
\* non-empty and the pattern is '*'.
ListedMatches ==
    {p \in Entries(arch_log.before) :
        \E pat \in arch_log.pats :
            /\ fnmatch(p, pat)
            /\ \A e \in arch_log.excl : ~fnmatch(p, e)
            /\ IF p \in ResDirs \cup ArchNames
               THEN pat = <<"*">> /\ non_empty(arch_log.before, p)
               ELSE Head(p) # "."}

\* The entries the logged call took out of results_dir.
MovedOut == arch_log.before.top \ arch_log.after.top

\* C23: the check lists exactly the matching entries (archive directories
\* of earlier calls apart), and an Archive decision moves exactly the
\* entries the check listed (those whose move did not fail): hidden files,
\* empty directories, excluded entries and directories matched by a
\* pattern other than '*' stay in results_dir.
C23_ListedAndMoved ==
    arch_log.calls > 0 /\ arch_log.before.exists
    => /\ arch_log.found \ ArchNames = ListedMatches \ ArchNames
       /\ arch_log.decision = "archive" /\ arch_log.ret = "true"
            => MovedOut = arch_log.found \ arch_log.failed


\* Experiment n exists: its directory holds {n}_config.yml or config.yml.
ExperimentExists(n) == exps[n].dir /\ (Exists(exps[n].pref) \/ Exists(exps[n].fb))

\* The file of experiment n: {n}_config.yml preferred over config.yml.
ExperimentFile(n) == IF Exists(exps[n].pref) THEN exps[n].pref ELSE exps[n].fb

\* C24: the candidate list made for a work directory holds a name exactly
\* when that experiment exists ({name}_config.yml or config.yml present);
\* and a selection or resume that loads a candidate loads the experiment's
\* file, {name}_config.yml preferred.
C24_DiscoveryMatchesExistence ==
    [][/\ update_experiment_names => exp_items' = {n \in ExpNames : ExperimentExists(n)}
       /\ (LoadStep \/ ResumeStep) /\ current_config' # EmptyDoc /\ current_config' # current_config
            => \A k \in DOMAIN ExperimentFile(exp_text').doc.kids :
                    Has(current_config', k)
                    /\ current_config'.kids[k] = ExperimentFile(exp_text').doc.kids[k]]_vars

\* Distance jobs on a data directory in which the alias path of an item,
\* data_dir / (exp_name + input file name), is free or is already taken by
\* a regular file that was there before the job: another input file of the
\* same directory (inputs x.mrc and e1x.mrc of experiment e1) or any other
\* file of that name.
InitAlias ==
    /\ \E e \in LoadableExps :
        /\ exps = [n \in ExpNames |-> IF n = "e1" THEN e ELSE NoExp]
        /\ MgrLoaded("e1", FoundConfig(e).doc)
        /\ TabsLoaded(FoundConfig(e).doc)
    /\ job = [st \in Stages |-> IdleJob]
    /\ mesh = IdleMesh
    /\ arch_log = NoCall
    /\ now = 0
    /\ links \in [Items -> {"absent", "file"}]
    /\ n_inputs \in [Stages -> 0..MaxItems]
    /\ n_inputs["curv"] = 0
    /\ MergeIdle /\ SaveIdle

SpecAlias == InitAlias /\ [][DistNext]_vars

\* C25: a file that the job did not create and that lies at the alias path
\* of a work item is never deleted or replaced by a step of the job: it is
\* still there, as a regular file, after every step.
C25_AliasExclusive ==
    [][\A i \in Items : links[i] = "file" => links'[i] = "file"]_vars

\* The file _run_job_worker opens: job_data['config_path'], which _run_job
\* set to exp_dir / f"{exp_name}_config.yml" before it started the thread.
WorkerConfig == exps[job["dist"].exp].pref

\* C26: when the thread of a distance job has been started, the config file
\* its worker is about to open exists, parses, and holds what the stage's
\* config update wrote for this job: work_dir pointing to the results
\* directory and the distance settings as the widgets show them.
C26_WorkerReadsWrittenConfig ==
    job["dist"].pc = "thread"
        => /\ WorkerConfig.st = "ok"
           /\ Has(WorkerConfig.doc, "work_dir")
           /\ WorkerConfig.doc.kids["work_dir"] = ResultsSepLeaf(job["dist"].exp)
           /\ \A k \in DistKeys : SectionValue(WorkerConfig.doc, DistSection, k) = dist_w[k]

\* The stages that keep an is_running flag.
FlagStages == {"curv", "dist"}

\* A step of _run_job of stage st that gets past its first statement.
RunRequest(st) == IF st = "curv" THEN curv_run_job ELSE dist_run_job

\* C27: a stage has at most one job in progress.  From the start of the
\* job's thread until the queued cleanup has run is_running is true; while
\* it is true no run request of that stage is served and no thread is
\* started; it becomes true only with the start of a thread and false only
\* by the cleanup the ended worker queued.
C27_OneJobPerStage ==
    /\ [](\A st \in FlagStages : job[st].pc # "idle" => job[st].is_running)
    /\ [][\A st \in FlagStages :
            /\ job[st].is_running
                 => /\ ~RunRequest(st)
                    /\ job'[st].pc = "thread" => job[st].pc = "thread"
            /\ job[st].is_running /\ ~job'[st].is_running
                 => job[st].pc = "cleanup" /\ job_cleanup(st)
            /\ ~job[st].is_running /\ job'[st].is_running
                 => RunRequest(st) /\ job'[st].pc = "thread"]_vars

\* C27 witness: both stages have a job in progress: the curvature worker is
\* in its pool with an item running, the distance worker has ended and its
\* cleanup is queued, and both flags are set.
C27_Witness ==
    /\ job["curv"].pc = "pool" /\ \E i \in DOMAIN job["curv"].fut : job["curv"].fut[i] = "running"
    /\ job["dist"].pc = "cleanup" /\ job["dist"].total_files > 0
    /\ job["curv"].is_running /\ job["dist"].is_running

\* The experiment the manager holds when jobs are run: created by the tool,
\* with an output of an earlier distance job in its results directory, or
\* not created yet (a template is loaded and a name typed).
LiveExps ==
    {[ExpCreated("e1") EXCEPT !.results = [EmptyResults EXCEPT !.top = {NameA}]], NoExp}

\* Jobs of the three stages, the curvature and the distance stage both with
\* no input file or both with one.
InitLive ==
    /\ \E e \in LiveExps :
        /\ exps = [n \in ExpNames |-> IF n = "e1" THEN e ELSE NoExp]
        /\ \E d \in {IF e = NoExp THEN TemplateDoc ELSE FoundConfig(e).doc} :
            MgrLoaded("e1", d) /\ TabsLoaded(d)
    /\ job = [st \in Stages |-> IdleJob]
    /\ mesh = IdleMesh
    /\ arch_log = NoCall
    /\ now = 0
    /\ links = [i \in Items |-> "absent"]
    /\ \E k \in 0..1 : n_inputs = [st \in Stages |-> k]
    /\ MergeIdle /\ SaveIdle

\* What the background thread, the external processes and the queued
\* cleanup of a stage do next.
MeshWorkerNext ==
    \/ mesh_worker
    \/ mesh_job_cleanup

CurvWorkerNext ==
    \/ curv_worker_start
    \/ curv_item_start
    \/ curv_item_finish
    \/ curv_consume_result
    \/ curv_pool_exit
    \/ curv_job_cleanup

DistWorkerNext ==
    \/ dist_worker_start
    \/ dist_item_start
    \/ dist_item_finish
    \/ dist_consume_result
    \/ dist_pool_exit
    \/ dist_job_cleanup

\* No stage has a job in progress.
AllIdle == mesh.pc = "idle" /\ \A st \in Stages : job[st].pc = "idle"

\* The user starts a job when no stage is busy.
LiveNext ==
    \/ AllIdle /\ mesh_run_job
    \/ AllIdle /\ curv_run_job
    \/ AllIdle /\ dist_run_job
    \/ MeshWorkerNext
    \/ CurvWorkerNext
    \/ DistWorkerNext

\* The user clicks when they like; a started thread runs, every external
\* process terminates, and the event loop runs the cleanup a worker queued
\* with QTimer.singleShot(0, ...).
SpecLive ==
    /\ InitLive /\ [][LiveNext]_vars
    /\ WF_vars(MeshWorkerNext \/ CurvWorkerNext \/ DistWorkerNext)

\* The stage is idle: no job in progress, the button enabled.
StageIdle(st) == job[st].pc = "idle" /\ ~job[st].is_running /\ job[st].submit_enabled

MeshIdle == mesh.pc = "idle" /\ mesh.submit_enabled

CancelledRun ==
    /\ dist_run_job
    /\ arch_log'.calls = arch_log.calls + 1
    /\ arch_log'.caller = "dist"
    /\ arch_log'.decision = "cancel"

\* C30: a distance run request cancelled at the existing-results prompt
\* leaves the experiment as it was: the results directory, and the content
\* of the experiment's config file (work_dir and the distance section
\* included), are the same after the request as before it.
C30_CancelLeavesExperiment ==
    [][CancelledRun
         => /\ exps'[exp_text].results = exps[exp_text].results
            /\ FoundConfig(exps'[exp_text]) = FoundConfig(exps[exp_text])]_vars

\* The files of archive_<ts> that the logged Archive call wrote over:
\* shutil.move(str(p), str(archive_dir / p.name)) and shutil.copy2(...,
\* archive_dir / "config_snapshot.yml") replace a file that is already at
\* the destination (mkdir(exist_ok=True) accepts the directory an earlier
\* call made under the same timestamp).
Replaced ==
    LET earlier == arch_log.before.arch[arch_log.ts].items
        moved == (arch_log.items \ arch_log.failed) \ ResDirs
        copied == IF Exists(arch_log.cfg) /\ arch_log.copyOk THEN {Snapshot} ELSE {}
    IN earlier \cap (moved \cup copied)

\* C29: an Archive operation keeps the earlier archives: every archive
\* directory that existed before it still exists and holds every file it
\* held, the config snapshots included, and none of these files was
\* replaced by the operation, also when the operation obtains the
\* timestamp of an earlier one.
C29_EarlierArchivesKept ==
    arch_log.decision = "archive" /\ arch_log.ret = "true"
        => /\ \A t \in Times :
                arch_log.before.arch[t].made
                    => /\ arch_log.after.arch[t].made
                       /\ arch_log.before.arch[t].items \subseteq arch_log.after.arch[t].items
           /\ Replaced = {}
============================================================================
